---- MODULE Spec2Model ----
(***************************************************************************)
(* Lead ingestion, mapping, duplicate detection, routing and delivery of   *)
(* the vellkopoint backend (backend/app/services, backend/app/tasks,       *)
(* backend/app/api/v1/endpoints/customers.py).                             *)
(*                                                                         *)
(* Strings are sequences of one-character strings, so that lower-casing,   *)
(* stripping and lexical comparison are computed character by character.   *)
(* Python dicts whose iteration order the code depends on (the raw         *)
(* payload) are sequences of <<key, value>> pairs; the other dicts are     *)
(* functions from keys to values.                                          *)
(***************************************************************************)
EXTENDS Integers, Sequences, FiniteSets, TLC

VARIABLES
    systemFields,   \* SystemField collection, in insertion order
    vendors,        \* Vendor collection: vendor id -> document with embedded sources
    unknownFields,  \* UnknownField collection, in insertion order
    leads,          \* Lead collection, in insertion order (index = lead id)
    processQueue,   \* pending process_lead_task messages
    routeQueue,     \* pending route_lead_task messages (lead ids)
    now,            \* wall clock, in hours since the epoch
    lastJob,        \* what the last process_lead_task run did (observation)
    customers,      \* Customer collection, in insertion order
    campaigns,      \* Campaign collection, in insertion order (index = campaign id)
    destinations,   \* Destination collection: destination id -> document
    router,         \* the route worker: position in execute_routing and its locals
    httpLog,        \* requests handed to the HTTP client, in order
    lastApi,        \* what the last campaign API call did (observation)
    budget,         \* remaining environment steps of each kind
    tasks           \* the other workers: reprocessing, remapping, and the
                    \* process workers that run apply_mapping step by step

vars == <<systemFields, vendors, unknownFields, leads, processQueue, routeQueue,
          now, lastJob, customers, campaigns, destinations, router, httpLog,
          lastApi, budget, tasks>>

ingestVars == <<systemFields, vendors, unknownFields, leads, processQueue,
                routeQueue, lastJob>>
routeVars == <<customers, campaigns, destinations, router, httpLog, lastApi, tasks>>

----------------------------------------------------------------------------
(* Bounds of the model *)

MaxIngest == 2      \* ingest requests accepted in one behaviour
MaxTicks == 2       \* clock advances in one behaviour
MaxAdmin == 1       \* administrative changes of a destination in one behaviour
MaxApi == 2         \* campaign create / update calls in one behaviour

----------------------------------------------------------------------------
(* Strings *)

NoneVal == <<"None">>            \* Python None, where a string is expected
NoneId == "<none>"               \* Python None, where an id is expected
TrueVal == <<"True">>            \* Python True stored as a dict value
EmptyStr == <<>>

Truthy(v) == v # NoneVal /\ v # EmptyStr

ToLower(c) ==
    CASE c = "A" -> "a" [] c = "B" -> "b" [] c = "E" -> "e" [] c = "P" -> "p"
      [] c = "Q" -> "q" [] c = "X" -> "x" [] c = "N" -> "n" [] c = "O" -> "o"
      [] OTHER -> c

ToUpper(c) ==
    CASE c = "a" -> "A" [] c = "b" -> "B" [] c = "e" -> "E" [] c = "p" -> "P"
      [] c = "q" -> "Q" [] c = "x" -> "X" [] c = "n" -> "N" [] c = "o" -> "O"
      [] OTHER -> c

LowerAlnum == {"a", "b", "c", "d", "e", "f", "g", "l", "m", "n", "o", "p", "q",
               "r", "s", "t", "u", "v", "x", "y", "z",
               "0", "1", "2", "3", "4", "5", "6", "7", "8", "9"}

IsSpace(c) == c = " "

StrLower(s) == [i \in 1..Len(s) |-> ToLower(s[i])]
StrUpper(s) == [i \in 1..Len(s) |-> ToUpper(s[i])]

RECURSIVE LStrip(_)
LStrip(s) == IF s # <<>> /\ IsSpace(Head(s)) THEN LStrip(Tail(s)) ELSE s

RECURSIVE RStrip(_)
RStrip(s) ==
    IF s # <<>> /\ IsSpace(s[Len(s)]) THEN RStrip(SubSeq(s, 1, Len(s) - 1)) ELSE s

StrStrip(s) == RStrip(LStrip(s))

RECURSIVE RemoveChars(_, _)
RemoveChars(s, drop) ==
    IF s = <<>> THEN <<>>
    ELSE IF Head(s) \in drop THEN RemoveChars(Tail(s), drop)
         ELSE <<Head(s)>> \o RemoveChars(Tail(s), drop)

RECURSIVE KeepChars(_, _)
KeepChars(s, keep) ==
    IF s = <<>> THEN <<>>
    ELSE IF Head(s) \in keep THEN <<Head(s)>> \o KeepChars(Tail(s), keep)
         ELSE KeepChars(Tail(s), keep)

\* UnknownFieldService.normalize_alias
normalize_alias(val) ==
    IF ~Truthy(val) THEN EmptyStr
    ELSE KeepChars(StrStrip(StrLower(val)), LowerAlnum)

\* k.lower().replace("_", "").replace(" ", "") of apply_mapping's smart fallback
smart_key(k) == RemoveChars(StrLower(k), {"_", " "})

\* str(x): None prints as the four characters of "None"
Str(v) == IF v = NoneVal THEN <<"N", "o", "n", "e">> ELSE v

----------------------------------------------------------------------------
(* Dicts *)

EmptyDict == <<>>

DictGet(d, k) == IF k \in DOMAIN d THEN d[k] ELSE NoneVal

DictPut(d, k, v) == [x \in (DOMAIN d) \cup {k} |-> IF x = k THEN v ELSE d[x]]

DictDel(d, k) == [x \in (DOMAIN d) \ {k} |-> d[x]]

\* payload.get(k) on an ordered payload of <<key, value>> pairs
PayloadKeys(p) == {p[i][1] : i \in 1..Len(p)}

PayloadGet(p, k) ==
    IF \E i \in 1..Len(p) : p[i][1] = k
    THEN p[CHOOSE i \in 1..Len(p) : p[i][1] = k][2]
    ELSE NoneVal

----------------------------------------------------------------------------
(* Sequences *)

\* the first of a set of indices of a list (the element a for loop with a
\* break, next(...) or find_one stops at), 0 when the set is empty
FirstIndex(I) == IF I = {} THEN 0 ELSE CHOOSE x \in I : \A y \in I : x <= y

InSeq(x, seq) == \E i \in 1..Len(seq) : seq[i] = x

RECURSIVE IsPrefix(_, _)
IsPrefix(p, s) ==
    IF p = <<>> THEN TRUE
    ELSE IF s = <<>> THEN FALSE
         ELSE Head(p) = Head(s) /\ IsPrefix(Tail(p), Tail(s))

\* Python's  sub in s  on strings
IsSubstr(sub, s) == \E i \in 0..Len(s) : IsPrefix(sub, SubSeq(s, i + 1, Len(s)))

----------------------------------------------------------------------------
(* Documents *)

\* models/mapping.py MappingRule
MappingRule(source_field, target_field) ==
    [source_field |-> source_field, target_field |-> target_field,
     default_value |-> NoneVal, is_required |-> FALSE, is_static |-> FALSE]

\* the fields models/vendor.py declares on SourceConfig; reading any other
\* attribute of a SourceConfig raises AttributeError
SourceConfigFields ==
    {"rate_limit", "status", "dupe_check", "dupe_check_days", "dupe_fields",
     "rate", "dynamic_dupe_check", "exclude_from_global_dupe_checks",
     "append_dupes", "use_as_suppression_list", "send_filtered_leads_to",
     "dupe_check_timeframe", "dupe_field_1", "dupe_field_2",
     "dupe_field_operator"}

\* the fields models/destination.py declares on DestinationConfig
DestinationConfigFields ==
    {"url", "method", "headers", "auth_type", "auth_credentials", "timeout",
     "api_key"}

\* the source with id s_id inside a vendor document, 0 when absent
SourceIndex(vendor_doc, s_id) ==
    FirstIndex({i \in 1..Len(vendor_doc.sources) : vendor_doc.sources[i].id = s_id})

\* Vendor.find_one({"sources.id": s_id, ...}): ids of the vendors embedding s_id
VendorsOfSource(vs, s_id) == {v \in DOMAIN vs : SourceIndex(vs[v], s_id) # 0}

----------------------------------------------------------------------------
(* ProcessingEngine.apply_mapping *)

\* alias_map: every alias entry of every system field of the tenant, in
\* document order, tagged with the field it belongs to
RECURSIVE AliasEntriesOf(_, _)
AliasEntriesOf(sfs, tenant_id) ==
    IF sfs = <<>> THEN <<>>
    ELSE LET sf == Head(sfs)
             own == IF sf.tenant_id = tenant_id
                    THEN [i \in 1..Len(sf.aliases) |->
                            [target_key |-> sf.field_key,
                             alias_normalized |-> sf.aliases[i].alias_normalized,
                             scope |-> sf.aliases[i].scope,
                             owner_id |-> sf.aliases[i].owner_id,
                             vendor_id |-> sf.aliases[i].vendor_id,
                             source_id |-> sf.aliases[i].source_id]]
                    ELSE <<>>
         IN  own \o AliasEntriesOf(Tail(sfs), tenant_id)

alias_map_get(sfs, tenant_id, norm) ==
    SelectSeq(AliasEntriesOf(sfs, tenant_id), LAMBDA m : m.alias_normalized = norm)

SourcePass(matches, source_id) ==
    FirstIndex({i \in 1..Len(matches) :
                  matches[i].scope = "source" /\ matches[i].source_id = source_id})

VendorPass(matches, vendor_id) ==
    FirstIndex({i \in 1..Len(matches) :
                  matches[i].scope = "vendor" /\ matches[i].vendor_id = vendor_id})

\* a third probe that takes entries of scope global only
GlobalPass_GlobalOnly(matches, owner_id) ==
    FirstIndex({i \in 1..Len(matches) : matches[i].scope = "global"})

GlobalPass(matches, owner_id) ==
    FirstIndex({i \in 1..Len(matches) :
                  matches[i].scope = "global" \/ matches[i].owner_id = owner_id})

\* one probe: target_sys_field after it, given the index of its first match
Probe(target_sys_field, matches, i) ==
    IF ~Truthy(target_sys_field) /\ i # 0 THEN matches[i].target_key
    ELSE target_sys_field

\* ResolveAlias with the probes in the reverse order: global / owner first
ResolveAlias_GlobalFirst(matches, source_id, vendor_id, owner_id) ==
    Probe(Probe(Probe(NoneVal, matches, GlobalPass(matches, owner_id)),
                matches, VendorPass(matches, vendor_id)),
          matches, SourcePass(matches, source_id))

\* the three probes of the alias list: source, then vendor, then global / owner
ResolveAlias(matches, source_id, vendor_id, owner_id) ==
    Probe(Probe(Probe(NoneVal, matches, SourcePass(matches, source_id)),
                matches, VendorPass(matches, vendor_id)),
          matches, GlobalPass(matches, owner_id))

\* AppendRule without the check for an existing rule
AppendRule_Always(rules, src_field, tgt_field) ==
    Append(rules, MappingRule(src_field, tgt_field))

\* persist_rule: append the rule to the stored source unless one exists; source
\* ids are unique, so at most one vendor document matches the find_one
AppendRule(rules, src_field, tgt_field) ==
    IF \E i \in 1..Len(rules) : rules[i].source_field = src_field THEN rules
    ELSE Append(rules, MappingRule(src_field, tgt_field))

persist_rule(vs, s_id, src_field, tgt_field, o_id) ==
    [v \in DOMAIN vs |->
        IF v \in VendorsOfSource(vs, s_id) /\ vs[v].owner_id = o_id
        THEN [vs[v] EXCEPT !.sources[SourceIndex(vs[v], s_id)].mapping.rules =
                              AppendRule(@, src_field, tgt_field)]
        ELSE vs[v]]

----------------------------------------------------------------------------
(* UnknownFieldService.track_unknown_field *)

MaxSamples == 5

SampleSep == <<",", " ">>

\* Python's  s.split(", ")
RECURSIVE SplitFrom(_, _)
SplitFrom(s, cur) ==
    IF s = <<>> THEN <<cur>>
    ELSE IF IsPrefix(SampleSep, s)
         THEN <<cur>> \o SplitFrom(SubSeq(s, Len(SampleSep) + 1, Len(s)), <<>>)
         ELSE SplitFrom(Tail(s), Append(cur, Head(s)))

StrSplit(s) == SplitFrom(s, <<>>)

\* Python's  ", ".join(parts)
RECURSIVE StrJoin(_)
StrJoin(parts) ==
    IF parts = <<>> THEN <<>>
    ELSE IF Len(parts) = 1 THEN parts[1]
         ELSE parts[1] \o SampleSep \o StrJoin(Tail(parts))

\* a sample list that is never cut
LastSamples_All(samples) == samples

\* current_samples[-5:]
LastSamples(samples) ==
    IF Len(samples) > MaxSamples
    THEN SubSeq(samples, Len(samples) - MaxSamples + 1, Len(samples))
    ELSE samples

AddSample(current_samples, sample_value, sample_str) ==
    IF InSeq(sample_str, current_samples) THEN sample_value
    ELSE StrJoin(LastSamples(Append(current_samples, sample_str)))

\* the sample list after one more sighting with sample_str
NextSamples(sample_value, sample_str) ==
    AddSample(IF Truthy(sample_value) THEN StrSplit(sample_value) ELSE <<>>,
              sample_value, sample_str)

\* the _id of a document about to be inserted: one that no stored document and
\* no document held in memory by a worker (held) has
FreshUnknownId(ufs, held) ==
    CHOOSE n \in 1..(Len(ufs) + Cardinality(held) + 1) :
        /\ n \notin held
        /\ \A i \in 1..Len(ufs) : ufs[i].id # n

\* the existing document ufs[i] (i = 0: none) and the sighting
TrackAt(ufs, i, source_id, field_name, sample_str, owner_id, tenant_id, t) ==
    IF i # 0
    THEN IF ufs[i].status = "ignored" THEN ufs
         ELSE [ufs EXCEPT ![i].detected_count = @ + 1,
                          ![i].last_seen = t,
                          ![i].sample_value =
                              IF Truthy(sample_str)
                              THEN NextSamples(@, sample_str) ELSE @]
    ELSE Append(ufs, [id |-> FreshUnknownId(ufs, {}),
                      tenant_id |-> tenant_id, owner_id |-> owner_id,
                      source_id |-> source_id, field_name |-> field_name,
                      sample_value |-> sample_str, detected_count |-> 1,
                      status |-> "unmapped", first_seen |-> t, last_seen |-> t])

track_unknown_field(ufs, source_id, field_name, sample_value, owner_id, tenant_id, t) ==
    TrackAt(ufs,
            FirstIndex({i \in 1..Len(ufs) : /\ ufs[i].field_name = field_name
                                              /\ ufs[i].tenant_id = tenant_id}),
            source_id, field_name,
            IF sample_value # NoneVal THEN Str(sample_value) ELSE NoneVal,
            owner_id, tenant_id, t)

----------------------------------------------------------------------------
(* ProcessingEngine.apply_mapping, continued *)

\* One pass of the auto-discovery loop over payload[i]; acc carries the locals
\* (result, mapped_source_fields), the stores it writes (vendors, unknown
\* fields) and the list of writes made to result, in order.
system_field_keys(sfs, tenant_id) ==
    {sfs[i].field_key : i \in {j \in 1..Len(sfs) : sfs[j].tenant_id = tenant_id}}

\* DiscoverAlias that writes an unmatched key under its own name
DiscoverAlias_WriteKey(acc, key, value, target_sys_field, source_id, owner_id, tenant_id, t) ==
    [acc EXCEPT
       !.result = DictPut(@, IF Truthy(target_sys_field) THEN target_sys_field
                             ELSE key, value),
       !.writes = Append(@, <<key, target_sys_field, value>>),
       !.vendors = persist_rule(@, source_id, key, target_sys_field, owner_id),
       !.mapped = @ \cup {key},
       !.unknown = IF Truthy(target_sys_field) THEN @
                   ELSE track_unknown_field(@, source_id, key, value, owner_id,
                                            tenant_id, t)]

\* the key is no canonical key and has no rule: the alias lookup decided
\* target_sys_field for it
DiscoverAlias(acc, key, value, target_sys_field, source_id, owner_id, tenant_id, t) ==
    IF Truthy(target_sys_field)
    THEN [acc EXCEPT
            !.result = DictPut(@, target_sys_field, value),
            !.writes = Append(@, <<key, target_sys_field, value>>),
            !.vendors = persist_rule(@, source_id, key, target_sys_field, owner_id),
            !.mapped = @ \cup {key}]
    ELSE [acc EXCEPT
            !.vendors = persist_rule(@, source_id, key, NoneVal, owner_id),
            !.mapped = @ \cup {key},
            !.unknown = track_unknown_field(@, source_id, key, value, owner_id,
                                            tenant_id, t)]

DiscoverKey(acc, key, value, sfs, source_id, owner_id, tenant_id, vendor_id, t) ==
    IF key \in system_field_keys(sfs, tenant_id)
    THEN [acc EXCEPT
            !.result = DictPut(@, key, value),
            !.writes = Append(@, <<key, key, value>>),
            !.vendors = IF key \notin acc.mapped
                        THEN persist_rule(@, source_id, key, key, owner_id)
                        ELSE @,
            !.mapped = @ \cup {key}]
    ELSE IF key \in acc.mapped THEN acc
    ELSE DiscoverAlias(acc, key, value,
                       ResolveAlias(alias_map_get(sfs, tenant_id, normalize_alias(key)),
                                    source_id, vendor_id, owner_id),
                       source_id, owner_id, tenant_id, t)

RECURSIVE DiscoverFrom(_, _, _, _, _, _, _, _, _)
DiscoverFrom(acc, payload, i, sfs, source_id, owner_id, tenant_id, vendor_id, t) ==
    IF i > Len(payload) THEN acc
    ELSE DiscoverFrom(
           DiscoverKey(acc, payload[i][1], payload[i][2], sfs, source_id,
                       owner_id, tenant_id, vendor_id, t),
           payload, i + 1, sfs, source_id, owner_id, tenant_id, vendor_id, t)

\* normalized_payload: smart key -> original key, later keys overwriting
RECURSIVE NormalizedPayload(_, _, _)
NormalizedPayload(payload, i, d) ==
    IF i > Len(payload) THEN d
    ELSE NormalizedPayload(payload, i + 1,
                           DictPut(d, smart_key(payload[i][1]), payload[i][1]))

\* the value a declared rule resolves to: exact key, smart match, default
SmartValue(val, found_key, payload) ==
    IF val = NoneVal /\ Truthy(found_key) THEN PayloadGet(payload, found_key) ELSE val

DefaultValue(val, rule) ==
    IF val = NoneVal /\ Truthy(rule.default_value) THEN rule.default_value ELSE val

RuleValue(rule, payload, normalized_payload) ==
    DefaultValue(
        SmartValue(PayloadGet(payload, rule.source_field),
                   DictGet(normalized_payload, smart_key(rule.source_field)),
                   payload),
        rule)

\* if val is not None and rule.target_field: result[rule.target_field] = val
PutRule(result, rule, val) ==
    IF val # NoneVal /\ Truthy(rule.target_field)
    THEN DictPut(result, rule.target_field, val) ELSE result

RECURSIVE ApplyRules(_, _, _, _, _)
ApplyRules(result, rules, i, payload, normalized_payload) ==
    IF i > Len(rules) THEN result
    ELSE ApplyRules(
           PutRule(result, rules[i],
                   RuleValue(rules[i], payload, normalized_payload)),
           rules, i + 1, payload, normalized_payload)

\* apply_mapping: the mapped dict, and the stores as it leaves them
\* apply_mapping running its discovery loop whatever auto_discover says
apply_mapping_AlwaysDiscover(payload, mapping, source_id, owner_id, tenant_id, vendor_id, auto_discover, sfs, vs, ufs, t) ==
    [DiscoverFrom([result |-> EmptyDict, writes |-> <<>>,
                   mapped |-> {mapping.rules[i].source_field :
                                  i \in 1..Len(mapping.rules)},
                   vendors |-> vs, unknown |-> ufs],
                  payload, 1, sfs, source_id, owner_id, tenant_id, vendor_id, t)
     EXCEPT !.result = ApplyRules(@, mapping.rules, 1, payload,
                                  NormalizedPayload(payload, 1, EmptyDict))]

apply_mapping(payload, mapping, source_id, owner_id, tenant_id, vendor_id, auto_discover, sfs, vs, ufs, t) ==
    LET start == [result |-> EmptyDict, writes |-> <<>>,
                  mapped |-> {mapping.rules[i].source_field :
                                 i \in 1..Len(mapping.rules)},
                  vendors |-> vs, unknown |-> ufs]
    IN  [(IF auto_discover
          THEN DiscoverFrom(start, payload, 1, sfs, source_id, owner_id,
                            tenant_id, vendor_id, t)
          ELSE start)
         EXCEPT !.result = ApplyRules(@, mapping.rules, 1, payload,
                                      NormalizedPayload(payload, 1, EmptyDict))]

----------------------------------------------------------------------------
(* ProcessingEngine.apply_normalization *)

\* NormalizeField with swapcase in the place of lower
NormalizeField_SwapCase(payload, rule) ==
    IF rule.field \in DOMAIN payload /\ rule.operation \in {"lowercase", "uppercase"}
    THEN DictPut(payload, rule.field,
                 [i \in 1..Len(Str(payload[rule.field])) |->
                    IF rule.operation = "uppercase"
                    THEN ToUpper(Str(payload[rule.field])[i])
                    ELSE IF ToLower(Str(payload[rule.field])[i]) # Str(payload[rule.field])[i]
                         THEN ToLower(Str(payload[rule.field])[i])
                         ELSE ToUpper(Str(payload[rule.field])[i])])
    ELSE payload

NormalizeField(payload, rule) ==
    IF rule.field \in DOMAIN payload
    THEN IF rule.operation = "lowercase"
         THEN DictPut(payload, rule.field, StrLower(Str(payload[rule.field])))
         ELSE IF rule.operation = "uppercase"
              THEN DictPut(payload, rule.field, StrUpper(Str(payload[rule.field])))
              ELSE payload
    ELSE payload

RECURSIVE NormalizeFrom(_, _, _)
NormalizeFrom(payload, rules, i) ==
    IF i > Len(rules) THEN payload
    ELSE NormalizeFrom(NormalizeField(payload, rules[i]), rules, i + 1)

apply_normalization(payload, normalization) ==
    IF normalization.rules = <<>> THEN payload
    ELSE NormalizeFrom(payload, normalization.rules, 1)

----------------------------------------------------------------------------
(* ProcessingEngine.evaluate_rules / evaluate_group / evaluate_condition *)

Digits == <<"0", "1", "2", "3", "4", "5", "6", "7", "8", "9">>

DigitValue(c) == (CHOOSE i \in 1..Len(Digits) : Digits[i] = c) - 1

IsDigit(c) == \E i \in 1..Len(Digits) : Digits[i] = c

RECURSIVE DigitsValue(_, _)
DigitsValue(s, acc) ==
    IF s = <<>> THEN acc ELSE DigitsValue(Tail(s), acc * 10 + DigitValue(Head(s)))

\* float(x) on the strings of the model: optional surrounding blanks, an
\* optional minus sign, decimal digits; anything else (None included) raises
IsNumeral(s) == s # <<>> /\ \A i \in 1..Len(s) : IsDigit(s[i])

Unsigned(s) == IF s # <<>> /\ Head(s) = "-" THEN Tail(s) ELSE s

Signed(s, n) == IF s # <<>> /\ Head(s) = "-" THEN 0 - n ELSE n

FloatOk(v) == v # NoneVal /\ IsNumeral(Unsigned(StrStrip(v)))

FloatOf(v) == Signed(StrStrip(v), DigitsValue(Unsigned(StrStrip(v)), 0))

\* A condition is [kind |-> "cond", field, op, is_list, value]: value is a
\* string, or a list of strings when is_list.
\* float(field_val) <op> float(target_val), False when either float() raises
CompareFloats(op, is_list, field_val, target_val) ==
    /\ ~is_list /\ FloatOk(field_val) /\ FloatOk(target_val)
    /\ CASE op = "gt" -> FloatOf(field_val) > FloatOf(target_val)
         [] op = "lt" -> FloatOf(field_val) < FloatOf(target_val)
         [] op = "gte" -> FloatOf(field_val) >= FloatOf(target_val)
         [] op = "lte" -> FloatOf(field_val) <= FloatOf(target_val)

\* re.search on the patterns of the model: literal characters, "." (any
\* character) and "*" after one of these; "(" opens a group that nothing in
\* the model closes. re.compile raises for a "*" with nothing to repeat, for
\* a repeated "*" and for an unterminated group.
RegexValid(p) ==
    /\ \A i \in 1..Len(p) : p[i] # "("
    /\ p # <<>> => p[1] # "*"
    /\ \A i \in 1..(Len(p) - 1) : ~(p[i] = "*" /\ p[i + 1] = "*")

AtomMatches(a, c) == a = "." \/ a = c

RECURSIVE MatchHere(_, _)
MatchHere(p, s) ==
    IF p = <<>> THEN TRUE
    ELSE IF Len(p) >= 2 /\ p[2] = "*"
    THEN \E k \in 0..Len(s) :
            /\ \A i \in 1..k : AtomMatches(p[1], s[i])
            /\ MatchHere(SubSeq(p, 3, Len(p)), SubSeq(s, k + 1, Len(s)))
    ELSE /\ s # <<>>
         /\ AtomMatches(p[1], s[1])
         /\ MatchHere(Tail(p), Tail(s))

RegexSearch(p, s) == \E i \in 0..Len(s) : MatchHere(p, SubSeq(s, i + 1, Len(s)))

\* str(target_val) of a list is a character set "['a', 'b']": unterminated
\* when the list is empty, else matching the characters of the elements, the
\* quote, and the comma and the blank between two elements
ListClass(l) ==
    UNION {{l[i][j] : j \in 1..Len(l[i])} : i \in 1..Len(l)}
      \cup {"'"} \cup (IF Len(l) > 1 THEN {",", " "} ELSE {})

\* re.search(str(target_val), str(field_val)) raises re.error
RegexRaises(is_list, target_val) ==
    IF is_list THEN target_val = <<>> ELSE ~RegexValid(Str(target_val))

RegexFound(is_list, field_val, target_val) ==
    IF is_list
    THEN \E i \in 1..Len(Str(field_val)) : Str(field_val)[i] \in ListClass(target_val)
    ELSE RegexSearch(Str(target_val), Str(field_val))

\* the operators whose evaluation stands inside try / except
Guarded_FloatsOnly(op) == op \in {"gt", "lt", "gte", "lte"}

Guarded(op) == op \in {"gt", "lt", "gte", "lte", "regex"}

\* float() or re.search raises while the condition is evaluated
Raises(op, is_list, field_val, target_val) ==
    \/ /\ op \in {"gt", "lt", "gte", "lte"}
       /\ is_list \/ ~FloatOk(field_val) \/ ~FloatOk(target_val)
    \/ op = "regex" /\ RegexRaises(is_list, target_val)

Compare(op, is_list, field_val, target_val) ==
    CASE op = "eq" -> ~is_list /\ Str(field_val) = Str(target_val)
      [] op = "neq" -> is_list \/ Str(field_val) # Str(target_val)
      [] op \in {"gt", "lt", "gte", "lte"} ->
            CompareFloats(op, is_list, field_val, target_val)
      [] op = "in" -> IF is_list THEN InSeq(field_val, target_val)
                      ELSE IsSubstr(Str(field_val), Str(target_val))
      [] op = "nin" -> IF is_list THEN ~InSeq(field_val, target_val)
                       ELSE ~IsSubstr(Str(field_val), Str(target_val))
      [] op = "contains" ->
            ~is_list /\ IsSubstr(StrLower(Str(target_val)), StrLower(Str(field_val)))
      [] op = "regex" ->
            ~RegexRaises(is_list, target_val)
              /\ RegexFound(is_list, field_val, target_val)
      [] OTHER -> TRUE

evaluate_condition(payload, condition) ==
    Compare(condition.op, condition.is_list, DictGet(payload, condition.field),
            condition.value)

\* Combine without the test for an empty list of results
Combine_NoEmptyCase(logic, results) ==
    IF logic = "and" THEN \A i \in 1..Len(results) : results[i]
    ELSE \E i \in 1..Len(results) : results[i]

\* all(results) / any(results), True on an empty list
Combine(logic, results) ==
    IF results = <<>> THEN TRUE
    ELSE IF logic = "and" THEN \A i \in 1..Len(results) : results[i]
         ELSE \E i \in 1..Len(results) : results[i]

\* A group is [kind |-> "group", logic, conditions]
RECURSIVE evaluate_group(_, _)
evaluate_group(payload, group) ==
    Combine(group.logic,
            [i \in 1..Len(group.conditions) |->
                IF group.conditions[i].kind = "group"
                THEN evaluate_group(payload, group.conditions[i])
                ELSE evaluate_condition(payload, group.conditions[i])])

\* what a call returns: "true" or "false", or "raise" when an exception leaves
\* evaluate_condition
ConditionOutcome(payload, condition) ==
    IF /\ ~Guarded(condition.op)
       /\ Raises(condition.op, condition.is_list,
                 DictGet(payload, condition.field), condition.value)
    THEN "raise"
    ELSE IF evaluate_condition(payload, condition) THEN "true" ELSE "false"

RECURSIVE GroupOutcome(_, _)
GroupOutcome(payload, group) ==
    LET results == [i \in 1..Len(group.conditions) |->
                      IF group.conditions[i].kind = "group"
                      THEN GroupOutcome(payload, group.conditions[i])
                      ELSE ConditionOutcome(payload, group.conditions[i])]
    IN  IF \E i \in 1..Len(results) : results[i] = "raise" THEN "raise"
        ELSE IF Combine(group.logic, [i \in 1..Len(results) |-> results[i] = "true"])
             THEN "true" ELSE "false"

NoFilter == [kind |-> "none"]

RulesOutcome(payload, rules) ==
    IF rules.filtering = NoFilter THEN "true" ELSE GroupOutcome(payload, rules.filtering)

evaluate_rules(payload, rules) ==
    IF rules.filtering = NoFilter THEN TRUE
    ELSE evaluate_group(payload, rules.filtering)

----------------------------------------------------------------------------
(* ProcessingEngine.check_duplicate *)

K_email == <<"e", "m", "a", "i", "l">>
K_language == <<"l", "a", "n", "g", "u", "a", "g", "e">>
K_source_language == <<"s", "o", "u", "r", "c", "e", "_">> \o K_language
K_rejected == <<"_", "r", "e", "j", "e", "c", "t", "e", "d">>
K_rejection_reason == K_rejected \o <<"_", "r", "e", "a", "s", "o", "n">>
K_redirect_history == <<"_redirect_history">>
K_diverted_from == <<"_diverted_from">>

\* the {"data.<field>": val} conditions, one per configured field with a
\* truthy value in the new record
QueryConditions(payload, fields_to_check) ==
    SelectSeq([i \in 1..Len(fields_to_check) |->
                  <<fields_to_check[i], DictGet(payload, fields_to_check[i])>>],
              LAMBDA c : Truthy(c[2]))

\* MatchesDupeQuery with the window bound applied also when dupe_check_days is 0
MatchesDupeQuery_AlwaysWindowed(lead, conds, mongo_op, source, t) ==
    /\ lead.source_id = source.id
    /\ IF mongo_op = "$or"
       THEN \E i \in 1..Len(conds) : DictGet(lead.data, conds[i][1]) = conds[i][2]
       ELSE \A i \in 1..Len(conds) : DictGet(lead.data, conds[i][1]) = conds[i][2]
    /\ lead.created_at >= t - 24 * source.config.dupe_check_days

\* MatchesDupeQuery with a condition on the status of the stored lead
MatchesDupeQuery_ProcessedOnly(lead, conds, mongo_op, source, t) ==
    /\ lead.source_id = source.id
    /\ lead.status = "processed"
    /\ IF mongo_op = "$or"
       THEN \E i \in 1..Len(conds) : DictGet(lead.data, conds[i][1]) = conds[i][2]
       ELSE \A i \in 1..Len(conds) : DictGet(lead.data, conds[i][1]) = conds[i][2]
    /\ (source.config.dupe_check_days > 0
          => lead.created_at >= t - 24 * source.config.dupe_check_days)

\* a stored lead against main_query
MatchesDupeQuery(lead, conds, mongo_op, source, t) ==
    /\ lead.source_id = source.id
    /\ IF mongo_op = "$or"
       THEN \E i \in 1..Len(conds) : DictGet(lead.data, conds[i][1]) = conds[i][2]
       ELSE \A i \in 1..Len(conds) : DictGet(lead.data, conds[i][1]) = conds[i][2]
    /\ (source.config.dupe_check_days > 0
          => lead.created_at >= t - 24 * source.config.dupe_check_days)

fields_to_check(source) ==
    IF source.config.dupe_fields # <<>> THEN source.config.dupe_fields
    ELSE <<K_email>>

\* a query that combines the conditions with $or whatever the operator
mongo_op_AlwaysOr(source) == "$or"

mongo_op(source) ==
    IF source.config.dupe_field_operator \in {"", "or"} THEN "$or" ELSE "$and"

\* Lead.find_one(main_query) for the conditions conds, and the verdict
FindDuplicate(conds, source, ls, t) ==
    IF conds = <<>> THEN NoneVal
    ELSE IF \E i \in 1..Len(ls) :
               MatchesDupeQuery(ls[i], conds, mongo_op(source), source, t)
         THEN IF source.config.dupe_check_days > 0
              THEN <<"Duplicate lead found within ",
                     ToString(source.config.dupe_check_days), " days">>
              ELSE <<"Duplicate lead found">>
         ELSE NoneVal

check_duplicate(payload, source, ls, t) ==
    IF ~source.config.dupe_check THEN NoneVal
    ELSE FindDuplicate(QueryConditions(payload, fields_to_check(source)),
                       source, ls, t)

----------------------------------------------------------------------------
(* ProcessingEngine.process_record *)

\* d["source_language"] = d.pop("language") on a dict
RenameLanguage(d) ==
    IF K_language \in DOMAIN d
    THEN DictPut(DictDel(d, K_language), K_source_language, d[K_language])
    ELSE d

\* the same on the ordered payload: the popped pair goes to the end, or
\* overwrites an existing source_language pair in place
PayloadRenameLanguage(p) ==
    IF K_language \notin PayloadKeys(p) THEN p
    ELSE LET v == PayloadGet(p, K_language)
             rest == SelectSeq(p, LAMBDA kv : kv[1] # K_language)
         IN  IF K_source_language \in PayloadKeys(rest)
             THEN [i \in 1..Len(rest) |->
                     IF rest[i][1] = K_source_language
                     THEN <<K_source_language, v>> ELSE rest[i]]
             ELSE Append(rest, <<K_source_language, v>>)

\* after mapping (m), normalization, the duplicate check and the filter: the
\* duplicate branch, the filter branch and the persistence step
\* Redirected with the loop protection and the test of the target left out
Redirected_Always(redirect_to, source_id, history) == TRUE

\* lines 28 and 32: a redirect target is set, and neither it nor this source
\* is in the history the payload carries
Redirected(redirect_to, source_id, history) ==
    /\ redirect_to # NoneId /\ redirect_to # ""
    /\ ~InSeq(redirect_to, history)
    /\ ~InSeq(source_id, history)

RecordChecked(payload, source, owner_id, tenant_id, vendor_id, ls, t, m, normalized_data, dupe_error, passes) ==
    LET is_dupe == Truthy(dupe_error)
        \* line 28 reads source.config.duplicate_redirect_source_id
        raises == is_dupe /\ "duplicate_redirect_source_id" \notin SourceConfigFields
        redirect_to == IF is_dupe /\ ~raises
                       THEN source.config.duplicate_redirect_source_id ELSE NoneId
        history == IF K_redirect_history \in PayloadKeys(payload)
                   THEN PayloadGet(payload, K_redirect_history) ELSE <<>>
        redirected == Redirected(redirect_to, source.id, history)
        new_payload ==
            SelectSeq(payload, LAMBDA kv : kv[1] \notin {K_redirect_history,
                                                        K_diverted_from})
              \o << <<K_redirect_history, Append(history, source.id)>>,
                    <<K_diverted_from, <<source.id>> >> >>
        reason1 == IF redirected
                   THEN <<"Duplicate - Diverted to ", redirect_to>> ELSE dupe_error
        \* lines 60 and 72 read "_rejected" back from the mapped data, where a
        \* mapped field of that name is found as well as the flag of line 56
        flagged == Truthy(DictGet(normalized_data, K_rejected))
        filtered == ~is_dupe /\ ~flagged /\ ~passes
        rejected == is_dupe \/ flagged \/ filtered
        reason == IF is_dupe THEN reason1
                  ELSE IF filtered THEN <<"Source rules failed">>
                  ELSE DictGet(normalized_data, K_rejection_reason)
        data0 == IF is_dupe \/ filtered
                 THEN DictPut(DictPut(normalized_data, K_rejected, TrueVal),
                              K_rejection_reason, reason)
                 ELSE normalized_data
        lead_doc == [id |-> Len(ls) + 1,
                     owner_id |-> owner_id, tenant_id |-> tenant_id,
                     vendor_id |-> IF vendor_id # NoneId /\ vendor_id # ""
                                   THEN vendor_id ELSE "unknown",
                     source_id |-> source.id,
                     data |-> RenameLanguage(data0),
                     original_payload |-> PayloadRenameLanguage(payload),
                     status |-> IF rejected THEN "rejected" ELSE "processed",
                     rejection_reason |-> IF rejected THEN reason ELSE NoneVal,
                     routing_results |-> <<>>,
                     created_at |-> t]
    IN  [raised |-> raises,
         dupe_error |-> dupe_error,
         rejected |-> rejected,
         writes |-> m.writes,
         vendors |-> m.vendors,
         unknown |-> m.unknown,
         leads |-> IF raises THEN ls ELSE Append(ls, lead_doc),
         lead_id |-> IF raises THEN 0 ELSE Len(ls) + 1,
         redirects |-> IF redirected
                       THEN <<[payload |-> new_payload, source_id |-> redirect_to,
                               vendor_id |-> IF vendor_id # NoneId /\ vendor_id # ""
                                             THEN vendor_id ELSE "unknown",
                               owner_id |-> owner_id, tenant_id |-> tenant_id]>>
                       ELSE <<>>]

RecordNormalized(payload, source, owner_id, tenant_id, vendor_id, ls, t, m, normalized_data) ==
    RecordChecked(payload, source, owner_id, tenant_id, vendor_id, ls, t, m,
                  normalized_data,
                  check_duplicate(normalized_data, source, ls, t),
                  evaluate_rules(normalized_data, source.rules))

RecordMapped(payload, source, owner_id, tenant_id, vendor_id, ls, t, m) ==
    RecordNormalized(payload, source, owner_id, tenant_id, vendor_id, ls, t, m,
                     apply_normalization(m.result, source.normalization))

\* The run of process_record on (payload, source): what it returns or raises,
\* the stores as it leaves them, and the messages it enqueues.
process_record(payload, source, owner_id, tenant_id, vendor_id, sfs, vs, ufs, ls, t) ==
    RecordMapped(payload, source, owner_id, tenant_id, vendor_id, ls, t,
                 apply_mapping(payload, source.mapping, source.id, owner_id,
                               tenant_id, vendor_id, TRUE, sfs, vs, ufs, t))

----------------------------------------------------------------------------
(* The deployment the model runs: one tenant, one owner, vendor v1 with     *)
(* sources s1 and s2, vendor v2 with source s3.                             *)

TenantId == "t1"
OwnerId == "o1"

SourceConfig(dupe_check, days, fields, operator) ==
    [dupe_check |-> dupe_check, dupe_check_days |-> days, dupe_fields |-> fields,
     dupe_field_operator |-> operator]

Source(id, config, normalization, filtering) ==
    [id |-> id, config |-> config, mapping |-> [rules |-> <<>>],
     normalization |-> [rules |-> normalization],
     rules |-> [filtering |-> filtering]]

NoDedupe == SourceConfig(FALSE, 0, <<>>, "or")

Vendor(sources) == [tenant_id |-> TenantId, owner_id |-> OwnerId, sources |-> sources]

PlainVendors ==
    [v \in {"v1", "v2"} |->
        IF v = "v1"
        THEN Vendor(<<Source("s1", NoDedupe, <<>>, NoFilter),
                      Source("s2", NoDedupe, <<>>, NoFilter)>>)
        ELSE Vendor(<<Source("s3", NoDedupe, <<>>, NoFilter)>>)]

NoJob == [kind |-> "none"]
NoApi == [kind |-> "none", seq |-> 0]

\* no routing run yet: pc is the worker's position in execute_routing; run,
\* lead_id, lead (the in-memory document), targets (the sorted list), i (the
\* loop index), log (what each iteration did) and at are the run's locals
IdleRouter ==
    [pc |-> "idle", run |-> 0, lead_id |-> 0, lead |-> NoneVal, targets |-> <<>>,
     i |-> 1, log |-> <<>>, at |-> 0]

\* no task is running: reprocessQueue holds the pending
\* reprocess_source_leads_task messages (source ids), reprocess the position
\* of the worker running one, remap the position of a map_unknown_field call,
\* process the positions of the workers that run process_lead_task step by
\* step, route the position of a second worker running route_lead_task
IdleTasks ==
    [reprocessQueue |-> <<>>,
     reprocess |-> [pc |-> "idle"],
     remap |-> [pc |-> "idle", seq |-> 0],
     process |-> [w \in {"w1", "w2"} |-> [pc |-> "idle"]],
     route |-> IdleRouter]

\* the empty database, with the given vendors and catalog
InitWith(vs, sfs, cust, camps, dests) ==
    /\ systemFields = sfs
    /\ vendors = vs
    /\ unknownFields = <<>>
    /\ leads = <<>>
    /\ processQueue = <<>>
    /\ routeQueue = <<>>
    /\ now = 0
    /\ lastJob = NoJob
    /\ customers = cust
    /\ campaigns = camps
    /\ destinations = dests
    /\ router = IdleRouter
    /\ httpLog = <<>>
    /\ lastApi = NoApi
    /\ tasks = IdleTasks
    /\ budget = [ingest |-> MaxIngest, ticks |-> MaxTicks, admin |-> MaxAdmin,
                 api |-> MaxApi]

RemoveAt(seq, i) == SubSeq(seq, 1, i - 1) \o SubSeq(seq, i + 1, Len(seq))

----------------------------------------------------------------------------
(* api/v1/endpoints/system_fields.py create_system_field *)

CreateSystemField(field_key, aliases) ==
    /\ ~\E i \in 1..Len(systemFields) :
          /\ systemFields[i].field_key = field_key
          /\ systemFields[i].tenant_id = TenantId
    /\ systemFields' = Append(systemFields,
                              [tenant_id |-> TenantId, owner_id |-> OwnerId,
                               field_key |-> field_key, aliases |-> aliases])
    /\ UNCHANGED <<vendors, unknownFields, leads, processQueue, routeQueue, now,
                   lastJob, budget>>
    /\ UNCHANGED routeVars

----------------------------------------------------------------------------
(* api/v1/endpoints/ingest.py ingest_data *)

Ingest(source_id, payload) ==
    /\ budget.ingest > 0
    /\ VendorsOfSource(vendors, source_id) # {}
    /\ LET v == CHOOSE x \in VendorsOfSource(vendors, source_id) : TRUE
       IN  processQueue' = Append(processQueue,
                                  [payload |-> payload, source_id |-> source_id,
                                   vendor_id |-> v, owner_id |-> vendors[v].owner_id,
                                   tenant_id |-> vendors[v].tenant_id])
    /\ budget' = [budget EXCEPT !.ingest = @ - 1]
    /\ UNCHANGED <<systemFields, vendors, unknownFields, leads, routeQueue, now,
                   lastJob>>
    /\ UNCHANGED routeVars

----------------------------------------------------------------------------
(* tasks/lead_tasks.py process_lead_task *)

ProcessLead(j) ==
    /\ j \in 1..Len(processQueue)
    /\ LET job == processQueue[j]
           rest == RemoveAt(processQueue, j)
       IN  IF job.vendor_id \notin DOMAIN vendors
              \/ SourceIndex(vendors[job.vendor_id], job.source_id) = 0
           THEN /\ processQueue' = rest
                /\ lastJob' = [kind |-> "skipped"]
                /\ UNCHANGED <<vendors, unknownFields, leads, routeQueue>>
           ELSE LET vendor == vendors[job.vendor_id]
                    source == vendor.sources[SourceIndex(vendor, job.source_id)]
                IN  \E r \in {process_record(job.payload, source, job.owner_id,
                                             job.tenant_id, job.vendor_id,
                                             systemFields, vendors, unknownFields,
                                             leads, now)} :
                    /\ vendors' = r.vendors
                    /\ unknownFields' = r.unknown
                    /\ leads' = r.leads
                    /\ processQueue' = rest \o r.redirects
                    /\ routeQueue' = IF ~r.raised /\ ~r.rejected
                                     THEN Append(routeQueue, r.lead_id)
                                     ELSE routeQueue
                    /\ lastJob' = [kind |-> "process",
                                   payload |-> job.payload,
                                   source |-> source,
                                   vendor_id |-> job.vendor_id,
                                   owner_id |-> job.owner_id,
                                   fields |-> systemFields,
                                   prior |-> leads,
                                   at |-> now,
                                   raised |-> r.raised,
                                   dupe_error |-> r.dupe_error,
                                   writes |-> r.writes,
                                   lead_id |-> r.lead_id]
    /\ UNCHANGED <<systemFields, now, budget>>
    /\ UNCHANGED routeVars

\* the clock advances by half a day or by a day
Tick(d) ==
    /\ budget.ticks > 0
    /\ now' = now + d
    /\ budget' = [budget EXCEPT !.ticks = @ - 1]
    /\ UNCHANGED <<systemFields, vendors, unknownFields, leads, processQueue,
                   routeQueue, lastJob>>
    /\ UNCHANGED routeVars

----------------------------------------------------------------------------
(* Alias precedence: field registration, and ingestion on source s1 *)

F_x == <<"x">>
F_y == <<"y">>
F_z == <<"z">>

AliasEntry(raw, scope, vendor_id, source_id) ==
    [alias_raw |-> raw, alias_normalized |-> normalize_alias(raw), scope |-> scope,
     owner_id |-> OwnerId, vendor_id |-> vendor_id, source_id |-> source_id]

A_source == AliasEntry(<<"E">>, "source", NoneId, "s1")
A_vendor == AliasEntry(<<"E">>, "vendor", "v1", NoneId)
A_global == AliasEntry(<<"E">>, "global", NoneId, NoneId)
A_foreign == AliasEntry(<<"E">>, "source", NoneId, "s3")

MapPayloads ==
    { << <<<<"e", "-">>, <<"q">>>> >>,
      << <<F_x, <<"p">>>>, <<<<"E">>, <<"q">>>> >>,
      << <<<<"e", "_">>, <<"p">>>>, <<<<"E">>, <<"q">>>> >> }

InitMap == InitWith(PlainVendors, <<>>, <<>>, <<>>, <<>>)

NextMap ==
    \/ \E a \in {<<>>, <<A_source>>} : CreateSystemField(F_x, a)
    \/ \E a \in {<<A_vendor>>, <<A_foreign>>} : CreateSystemField(F_y, a)
    \/ \E a \in {<<>>, <<A_global>>} : CreateSystemField(F_z, a)
    \/ \E p \in MapPayloads : Ingest("s1", p)
    \/ \E j \in 1..Len(processQueue) : ProcessLead(j)

SpecMap == InitMap /\ [][NextMap]_vars

----------------------------------------------------------------------------
(* Observations on the last process_lead_task run *)

Processed == lastJob.kind = "process"

FieldKeysOf(sfs) == {sfs[i].field_key : i \in 1..Len(sfs)}

\* the fields holding an alias of the given scope for the raw key, as the
\* catalog stood when the job ran
AliasFields(key, scope, vendor_id, source_id) ==
    {sf.field_key : sf \in
       {lastJob.fields[i] : i \in
          {j \in 1..Len(lastJob.fields) :
             \E a \in 1..Len(lastJob.fields[j].aliases) :
                LET e == lastJob.fields[j].aliases[a]
                IN  /\ e.alias_normalized = normalize_alias(key)
                    /\ e.scope = scope
                    /\ e.vendor_id = vendor_id
                    /\ e.source_id = source_id}}}

\* the raw key was undecided when the job started
Undecided(key) ==
    /\ key \notin FieldKeysOf(lastJob.fields)
    /\ \A r \in 1..Len(lastJob.source.mapping.rules) :
          lastJob.source.mapping.rules[r].source_field # key

\* the rule now stored for the raw key on the source of the last job
StoredTarget(key) ==
    LET v == vendors[lastJob.vendor_id]
        rules == v.sources[SourceIndex(v, lastJob.source.id)].mapping.rules
        i == FirstIndex({r \in 1..Len(rules) : rules[r].source_field = key})
    IN  IF i = 0 THEN <<"no rule">> ELSE rules[i].target_field

\* payload[i]'s value was written under one of the fields F, the rule stored
\* for it points there, and the lead carries the value there unless another
\* key of the payload or a declared rule wrote the same field afterwards
WrittenUnder(i, F) ==
    LET key == lastJob.payload[i][1]
        value == lastJob.payload[i][2]
    IN  \E w \in 1..Len(lastJob.writes) :
          LET f == lastJob.writes[w][2]
              alone == /\ \A u \in (w + 1)..Len(lastJob.writes) :
                             lastJob.writes[u][2] # f
                       /\ \A r \in 1..Len(lastJob.source.mapping.rules) :
                             lastJob.source.mapping.rules[r].target_field # f
          IN  /\ lastJob.writes[w] = <<key, f, value>>
              /\ f \in F
              /\ StoredTarget(key) = f
              /\ (alone /\ ~lastJob.raised
                    => DictGet(leads[lastJob.lead_id].data, f) = value)

\* C1. Alias precedence: for a raw key with no rule yet that is no canonical
\* key, apply_mapping writes the value under the field holding the
\* source-scoped alias when there is one, and under the field holding the
\* vendor-scoped alias when there is none but a vendor-scoped one, whatever
\* else is registered and in whatever order.
AliasPrecedence ==
    Processed =>
      \A i \in 1..Len(lastJob.payload) :
        LET key == lastJob.payload[i][1]
            src == AliasFields(key, "source", NoneId, lastJob.source.id)
            ven == AliasFields(key, "vendor", lastJob.vendor_id, NoneId)
        IN  Undecided(key) =>
              /\ (src # {} => WrittenUnder(i, src))
              /\ (src = {} /\ ven # {} => WrittenUnder(i, ven))

\* the three scopes registered on three fields, the source-scoped one last,
\* and the lead carries the value under the source-scoped field
AliasPrecedenceWitness ==
    /\ Processed
    /\ lastJob.source.id = "s1"
    /\ Len(lastJob.fields) = 3
    /\ lastJob.fields[3].field_key = F_x
    /\ \E i \in 1..Len(lastJob.payload) :
          LET key == lastJob.payload[i][1]
          IN  /\ Undecided(key)
              /\ AliasFields(key, "source", NoneId, "s1") = {F_x}
              /\ AliasFields(key, "vendor", "v1", NoneId) = {F_y}
              /\ AliasFields(key, "global", NoneId, NoneId) = {F_z}
              /\ DictGet(leads[lastJob.lead_id].data, F_x) = lastJob.payload[i][2]
              /\ F_y \notin DOMAIN leads[lastJob.lead_id].data

----------------------------------------------------------------------------
(* Duplicate detection: source s1 dedupes on email, with a window of 0 or 1 *)
(* day and a filter refusing email "b"; source s2 does not dedupe.           *)

EmailField == [tenant_id |-> TenantId, owner_id |-> OwnerId, field_key |-> K_email,
               aliases |-> <<>>]

Cond(field, op, value) ==
    [kind |-> "cond", field |-> field, op |-> op, is_list |-> FALSE, value |-> value]

Group(logic, conditions) ==
    [kind |-> "group", logic |-> logic, conditions |-> conditions]

DedupeVendors(days) ==
    [v \in {"v1", "v2"} |->
        IF v = "v1"
        THEN Vendor(<<Source("s1", SourceConfig(TRUE, days, <<K_email>>, "or"), <<>>,
                             Group("and", <<Cond(K_email, "neq", <<"b">>)>>)),
                      Source("s2", NoDedupe, <<>>, NoFilter)>>)
        ELSE Vendor(<<Source("s3", NoDedupe, <<>>, NoFilter)>>)]

DedupePayloads ==
    { << <<K_email, <<"a">>>> >>,
      << <<K_email, <<"b">>>> >>,
      << <<K_email, EmptyStr>> >> }

InitDedupe ==
    \E days \in {0, 1} : InitWith(DedupeVendors(days), <<EmailField>>, <<>>, <<>>, <<>>)

NextDedupe ==
    \/ \E s \in {"s1", "s2"} : \E p \in DedupePayloads : Ingest(s, p)
    \/ \E j \in 1..Len(processQueue) : ProcessLead(j)
    \/ \E d \in {12, 24} : Tick(d)

SpecDedupe == InitDedupe /\ [][NextDedupe]_vars

\* the email the last job's payload carries
JobEmail == PayloadGet(lastJob.payload, K_email)

Dedupes == Processed /\ lastJob.source.config.dupe_check

\* the leads stored before the last job that carry its email on its source
PriorMatches ==
    {i \in 1..Len(lastJob.prior) :
        /\ lastJob.prior[i].source_id = lastJob.source.id
        /\ DictGet(lastJob.prior[i].data, K_email) = JobEmail}

IsDuplicateReason(reason) ==
    /\ reason # NoneVal
    /\ Head(reason) \in {"Duplicate lead found", "Duplicate lead found within ",
                         "Duplicate - Diverted to "}

\* C2. Sequential duplicate rejection with window_days = 0: a payload whose
\* email no earlier lead of the source carries, and which passes the filter,
\* is persisted as processed; a payload repeating the email of an earlier
\* processed lead of the source is persisted as rejected, the reason saying
\* it is a duplicate.
SequentialDuplicateRejected ==
    (Dedupes /\ lastJob.source.config.dupe_check_days = 0 /\ Truthy(JobEmail)) =>
       /\ (PriorMatches = {} /\ JobEmail # <<"b">> =>
              /\ ~lastJob.raised
              /\ leads[lastJob.lead_id].status = "processed")
       /\ ((\E i \in PriorMatches : lastJob.prior[i].status = "processed") =>
              /\ ~lastJob.raised
              /\ leads[lastJob.lead_id].status = "rejected"
              /\ IsDuplicateReason(leads[lastJob.lead_id].rejection_reason))

\* C21. Ingestion outcome: each run of process_record persists exactly one
\* record; the record is processed exactly when check_duplicate found no
\* duplicate and the source's filter is true on the stored data, and rejected
\* otherwise; a duplicate carries the duplicate reason whatever the filter
\* says.
IngestionOutcome ==
    Processed =>
       /\ ~lastJob.raised
       /\ Len(leads) = Len(lastJob.prior) + 1
       /\ LET lead == leads[lastJob.lead_id]
              is_dupe == Truthy(lastJob.dupe_error)
          IN  /\ lead.status \in {"processed", "rejected"}
              /\ lead.status = "processed" <=>
                    (~is_dupe /\ evaluate_rules(lead.data, lastJob.source.rules))
              /\ is_dupe => IsDuplicateReason(lead.rejection_reason)

\* C3. Duplicate window: with window_days = 0 the new record is classified a
\* duplicate iff some earlier lead of the source carries its (non-empty)
\* dedupe value, however old; with window_days = N > 0 iff such a lead was
\* created at or after now - N days.
DuplicateWindow ==
    (Dedupes /\ Truthy(JobEmail)) =>
       LET days == lastJob.source.config.dupe_check_days
           in_window == {i \in PriorMatches :
                           lastJob.prior[i].created_at >= lastJob.at - 24 * days}
       IN  /\ (days = 0 => (Truthy(lastJob.dupe_error) <=> PriorMatches # {}))
           /\ (days > 0 => (Truthy(lastJob.dupe_error) <=> in_window # {}))

\* the earlier leads of the source with the job's email that lie in the
\* source's window
MatchesInWindow ==
    {i \in PriorMatches :
        lastJob.source.config.dupe_check_days > 0 =>
            lastJob.prior[i].created_at
                >= lastJob.at - 24 * lastJob.source.config.dupe_check_days}

\* C37. Duplicate matching ignores record status: an earlier lead of the
\* source with the same dedupe value, within the window, makes the new record
\* a duplicate for check_duplicate whatever the earlier lead's status, so
\* also when it was rejected.
StatusIgnored ==
    (Dedupes /\ Truthy(JobEmail)) =>
        \A i \in MatchesInWindow :
            lastJob.prior[i].status \in {"processed", "rejected"}
                /\ Truthy(lastJob.dupe_error)

\* the only earlier lead with the job's email was rejected by the source's
\* filter, and the job was found a duplicate
StatusIgnoredWitness ==
    /\ Dedupes /\ Truthy(JobEmail)
    /\ MatchesInWindow # {}
    /\ \A i \in PriorMatches :
          /\ lastJob.prior[i].status = "rejected"
          /\ lastJob.prior[i].rejection_reason = <<"Source rules failed">>
    /\ Truthy(lastJob.dupe_error)

\* a one-day window, a matching lead two days old: not a duplicate; and a
\* zero window with a match two days old is one
DuplicateWindowWitness ==
    /\ Dedupes /\ Truthy(JobEmail)
    /\ PriorMatches # {}
    /\ \A i \in PriorMatches : lastJob.prior[i].created_at + 24 < lastJob.at
    /\ \/ lastJob.source.config.dupe_check_days = 1 /\ ~Truthy(lastJob.dupe_error)
       \/ lastJob.source.config.dupe_check_days = 0 /\ Truthy(lastJob.dupe_error)

----------------------------------------------------------------------------
(* Customers (target groups), campaigns (targets), destinations (endpoints) *)

NoCap == -1     \* Optional[int] = None on a cap

\* datetime.utcnow() of the model's clock: hour 0 is 1970-01-01 00:00, a Thursday
Weekdays ==
    <<"thursday", "friday", "saturday", "sunday", "monday", "tuesday", "wednesday">>

weekday(t) == Weekdays[((t \div 24) % 7) + 1]

TwoDigits(n) == <<Digits[(n \div 10) + 1], Digits[(n % 10) + 1]>>

\* now.strftime("%H:%M"); the clock advances by whole hours
current_time_str(t) == TwoDigits(t % 24) \o <<":", "0", "0">>

\* code point order on the characters of an HH:MM string
CharOrd(c) == IF IsDigit(c) THEN 48 + DigitValue(c) ELSE 58

\* Python's  a < b  on strings
RECURSIVE StrLess(_, _)
StrLess(a, b) ==
    IF b = <<>> THEN FALSE
    ELSE IF a = <<>> THEN TRUE
         ELSE IF Head(a) = Head(b) THEN StrLess(Tail(a), Tail(b))
              ELSE CharOrd(Head(a)) < CharOrd(Head(b))

AllDay == [all_day |-> TRUE, start_time |-> <<"0", "0", ":", "0", "0">>,
           end_time |-> <<"2", "3", ":", "5", "9">>]

NoCaps == [w \in {Weekdays[i] : i \in 1..Len(Weekdays)} |-> NoCap]

\* models/campaign.py CampaignConfig; caps maps a weekday to its <weekday>_cap
CampaignConfig(priority, caps, schedule) ==
    [priority |-> priority, status |-> "enabled", caps |-> caps,
     all_day |-> schedule.all_day, start_time |-> schedule.start_time,
     end_time |-> schedule.end_time, hourly_cap |-> NoCap, campaign_max |-> NoCap]

\* models/campaign.py Campaign
Campaign(id, name, destination_id, config, filtering, rules) ==
    [id |-> id, tenant_id |-> TenantId, owner_id |-> OwnerId, name |-> name,
     destination_id |-> destination_id, source_ids |-> <<>>, config |-> config,
     rules |-> [filtering |-> filtering], mapping |-> [rules |-> rules]]

\* models/customer.py Customer
Customer(id, dests, camps) ==
    [id |-> id, tenant_id |-> TenantId, owner_id |-> OwnerId, status |-> "enabled",
     destinations |-> dests, campaigns |-> camps]

\* models/destination.py Destination
Destination(method, approval_status, enabled) ==
    [tenant_id |-> TenantId, config |-> [method |-> method], enabled |-> enabled,
     approval_status |-> approval_status]

\* a static custom field of an outbound mapping
StaticRule(target_field, value) ==
    [source_field |-> EmptyStr, target_field |-> target_field,
     default_value |-> value, is_required |-> FALSE, is_static |-> TRUE]

----------------------------------------------------------------------------
(* RoutingEngine.check_caps_and_schedule *)

\* ScheduleOpen with both bounds of the window exclusive
ScheduleOpen_Exclusive(config, t) ==
    \/ config.all_day
    \/ /\ ~(Truthy(config.start_time)
            /\ ~StrLess(config.start_time, current_time_str(t)))
       /\ ~(Truthy(config.end_time)
            /\ ~StrLess(current_time_str(t), config.end_time))

ScheduleOpen(config, t) ==
    \/ config.all_day
    \/ /\ ~(Truthy(config.start_time)
            /\ StrLess(current_time_str(t), config.start_time))
       /\ ~(Truthy(config.end_time)
            /\ StrLess(config.end_time, current_time_str(t)))

\* The three cap checks run Lead.get_pymongo_collection().aggregate on a
\* pipeline whose $match stage has $elemMatch as a top-level key (no field
\* names it).  MongoDB rejects such a query ("unknown top level operator:
\* $elemMatch"), so the aggregate raises whenever a cap is set: no count is
\* ever obtained and no comparison with the cap is ever made.
CapCheck(cap) == IF cap = NoCap THEN "true" ELSE "raise"

\* "true", "false", or "raise" when an exception leaves the function
check_caps_and_schedule(campaign, t) ==
    IF ~ScheduleOpen(campaign.config, t) THEN "false"
    ELSE IF CapCheck(campaign.config.caps[weekday(t)]) # "true"
         THEN CapCheck(campaign.config.caps[weekday(t)])
         ELSE IF CapCheck(campaign.config.hourly_cap) # "true"
              THEN CapCheck(campaign.config.hourly_cap)
              ELSE CapCheck(campaign.config.campaign_max)

----------------------------------------------------------------------------
(* RoutingEngine.find_eligible_campaigns *)

\* the members of a set of indices in increasing order: the order in which a
\* find() returns the documents of a collection
RECURSIVE Ascending(_)
Ascending(I) ==
    IF I = {} THEN <<>> ELSE <<FirstIndex(I)>> \o Ascending(I \ {FirstIndex(I)})

\* CampaignsOf without the status and tenant conditions of the query
CampaignsOf_AnyStatus(customer, camps, tenant_id) ==
    Ascending({k \in 1..Len(camps) : InSeq(camps[k].id, customer.campaigns)})

\* Campaign.find({_id in campaign_ids, config.status enabled, tenant_id})
CampaignsOf(customer, camps, tenant_id) ==
    Ascending({k \in 1..Len(camps) : /\ InSeq(camps[k].id, customer.campaigns)
                                    /\ camps[k].config.status = "enabled"
                                    /\ camps[k].tenant_id = tenant_id})

Pairs(customer, camps, ks) ==
    [n \in 1..Len(ks) |-> [customer_id |-> customer.id, campaign |-> camps[ks[n]]]]

\* the (customer, campaign) pairs in the order the two loops visit them
RECURSIVE Visited(_, _, _, _)
Visited(custs, c, camps, tenant_id) ==
    IF c > Len(custs) THEN <<>>
    ELSE (IF custs[c].tenant_id = tenant_id /\ custs[c].status = "enabled"
          THEN Pairs(custs[c], camps, CampaignsOf(custs[c], camps, tenant_id))
          ELSE <<>>)
         \o Visited(custs, c + 1, camps, tenant_id)

\* one pass of the inner loop: "skip" (continue), "ok" (append), or "raise"
\* when check_caps_and_schedule raises
Gate(lead, campaign, t) ==
    IF campaign.source_ids # <<>> /\ ~InSeq(lead.source_id, campaign.source_ids)
    THEN "skip"
    ELSE IF check_caps_and_schedule(campaign, t) = "raise" THEN "raise"
    ELSE IF check_caps_and_schedule(campaign, t) = "false" THEN "skip"
    ELSE IF evaluate_rules(lead.data, campaign.rules) THEN "ok" ELSE "skip"

\* the loops run inside one try block: an exception ends them and the pairs
\* appended so far are returned; found is the position in the returned list
RECURSIVE Eligible(_, _, _, _, _)
Eligible(pairs, n, lead, t, eligible) ==
    IF n > Len(pairs) THEN eligible
    ELSE IF Gate(lead, pairs[n].campaign, t) = "raise" THEN eligible
    ELSE Eligible(pairs, n + 1, lead, t,
                  IF Gate(lead, pairs[n].campaign, t) = "ok"
                  THEN Append(eligible,
                              [customer_id |-> pairs[n].customer_id,
                               campaign |-> pairs[n].campaign,
                               found |-> Len(eligible) + 1])
                  ELSE eligible)

find_eligible_campaigns(lead, custs, camps, t) ==
    Eligible(Visited(custs, 1, camps, lead.tenant_id), 1, lead, t, <<>>)

----------------------------------------------------------------------------
(* RoutingEngine.execute_routing *)

\* eligible_campaigns left in the order candidate generation returned it
SortByPriority_Unsorted(eligible) == eligible

RECURSIVE InsertByPriority(_, _)
InsertByPriority(sorted, x) ==
    IF sorted = <<>> THEN <<x>>
    ELSE IF Head(sorted).campaign.config.priority >= x.campaign.config.priority
         THEN <<Head(sorted)>> \o InsertByPriority(Tail(sorted), x)
         ELSE <<x>> \o sorted

RECURSIVE SortFrom(_, _, _)
SortFrom(eligible, n, sorted) ==
    IF n > Len(eligible) THEN sorted
    ELSE SortFrom(eligible, n + 1, InsertByPriority(sorted, eligible[n]))

\* eligible_campaigns.sort(key=priority, reverse=True): the sort is stable, and
\* with reverse=True equal keys still keep their original order
SortByPriority(eligible) == SortFrom(eligible, 1, <<>>)

\* a loop that a failed delivery would end
NextPc_StopOnFailure(n, targets, status) ==
    IF n + 1 > Len(targets) \/ status = "failed" THEN "idle" ELSE "deliver"

\* the for loop goes on to the next pair whatever the delivery did
NextPc(n, targets, status) == IF n + 1 > Len(targets) THEN "idle" ELSE "deliver"

\* the end of one iteration: entry is what it did
Advance(r, entry) ==
    [r EXCEPT !.log = Append(@, entry),
              !.i = @ + 1,
              !.pc = NextPc(r.i, r.targets, entry.status)]

\* a lead that execute_routing would route whatever its status
Routable_AnyStatus(ls, lead_id) == lead_id \in 1..Len(ls)

\* a lead that execute_routing would route only while it has no result
Routable_Once(ls, lead_id) ==
    /\ lead_id \in 1..Len(ls) /\ ls[lead_id].status = "processed"
    /\ ls[lead_id].routing_results = <<>>

\* Lead.get(lead_id) finds a document and its status is "processed"
Routable(ls, lead_id) == lead_id \in 1..Len(ls) /\ ls[lead_id].status = "processed"

\* execute_routing(lead_id) up to the sorted list of targets
execute_routing(lead_id) ==
    IF ~Routable(leads, lead_id)
    THEN router' = [IdleRouter EXCEPT !.run = router.run + 1,
                                      !.lead_id = lead_id, !.at = now]
    ELSE \E targets \in {SortByPriority(
                            find_eligible_campaigns(leads[lead_id], customers,
                                                    campaigns, now))} :
           router' = [pc |-> IF targets = <<>> THEN "idle" ELSE "deliver",
                      run |-> router.run + 1,
                      lead_id |-> lead_id,
                      lead |-> leads[lead_id],
                      targets |-> targets, i |-> 1, log |-> <<>>, at |-> now]

\* route_lead_task, taken from the queue
RouteLead(j) ==
    /\ UNCHANGED tasks
    /\ router.pc = "idle"
    /\ j \in 1..Len(routeQueue)
    /\ routeQueue' = RemoveAt(routeQueue, j)
    /\ execute_routing(routeQueue[j])
    /\ UNCHANGED <<systemFields, vendors, unknownFields, leads, processQueue, now,
                   lastJob, customers, campaigns, destinations, httpLog, lastApi,
                   budget>>

\* route_lead_task sent for any lead id by another producer of the queue
RouteAny(lead_id) ==
    /\ UNCHANGED tasks
    /\ router.pc = "idle"
    /\ budget.admin > 0
    /\ budget' = [budget EXCEPT !.admin = @ - 1]
    /\ execute_routing(lead_id)
    /\ UNCHANGED <<systemFields, vendors, unknownFields, leads, processQueue,
                   routeQueue, now, lastJob, customers, campaigns, destinations,
                   httpLog, lastApi>>

----------------------------------------------------------------------------
(* RoutingEngine.deliver_to_campaign *)

\* the checks of step 1 without step 1b
DestinationUsable_Unapproved(dests, d) == d \in DOMAIN dests /\ dests[d].enabled

\* Destination.get(campaign.destination_id) finds a document, and it passes
\* the checks of steps 1 and 1b
DestinationUsable(dests, d) ==
    /\ d \in DOMAIN dests
    /\ dests[d].enabled
    /\ dests[d].approval_status = "approved"

\* lead.data as the payload handed to apply_mapping.  The order of the items
\* matters to apply_mapping only when two keys have the same smart key, which
\* no two keys of a lead stored in the deployments below have.
RECURSIVE DictItems(_)
DictItems(d) ==
    IF DOMAIN d = {} THEN <<>>
    ELSE LET k == CHOOSE x \in DOMAIN d : TRUE
         IN  <<<<k, d[k]>>>> \o DictItems(DictDel(d, k))

\* 2b: the static custom fields
RECURSIVE InjectStatic(_, _, _)
InjectStatic(outbound_data, rules, n) ==
    IF n > Len(rules) THEN outbound_data
    ELSE InjectStatic(
           IF rules[n].is_static /\ Truthy(rules[n].target_field)
              /\ Truthy(rules[n].default_value)
           THEN DictPut(outbound_data, rules[n].target_field, rules[n].default_value)
           ELSE outbound_data,
           rules, n + 1)

\* What the try block of step 3 can do.  For a method other than GET it reads
\* config.content_type, which DestinationConfig does not declare: the read
\* raises AttributeError before any request is built.  Otherwise the request
\* is sent, and the response is 2xx, or raise_for_status raises on another
\* status, or the transport fails, or the timeout expires.
HttpOutcomes(config) ==
    IF config.method # "GET" /\ "content_type" \notin DestinationConfigFields
    THEN {"attribute_error"}
    ELSE {"2xx", "non_2xx", "transport_error", "timeout"}

\* no raise_for_status: any response counts as delivered
ResultStatus_AnyResponse(outcome) ==
    IF outcome \in {"2xx", "non_2xx"} THEN "delivered" ELSE "failed"

ResultStatus(outcome) == IF outcome = "2xx" THEN "delivered" ELSE "failed"

\* str(e) of the exception caught, None when there was none
ErrorMessage(outcome) ==
    CASE outcome = "2xx" -> NoneVal
      [] outcome = "non_2xx" -> <<"HTTPStatusError">>
      [] outcome = "transport_error" -> <<"ConnectError">>
      [] outcome = "timeout" -> <<"ReadTimeout">>
      [] outcome = "attribute_error" ->
            <<"'DestinationConfig' object has no attribute 'content_type'">>

\* models/lead.py RoutingResult
RoutingResult(target, outcome, t) ==
    [customer_id |-> target.customer_id,
     campaign_id |-> target.campaign.id,
     destination_id |-> target.campaign.destination_id,
     status |-> ResultStatus(outcome),
     delivered_at |-> t,
     error_message |-> ErrorMessage(outcome)]

\* client.request(method, url, params=outbound_data), when it is reached
Requests(log, r, target, method, outbound_data, outcome) ==
    IF outcome = "attribute_error" THEN log
    ELSE Append(log, [run |-> r.run, lead_id |-> r.lead_id,
                      campaign_id |-> target.campaign.id,
                      destination_id |-> target.campaign.destination_id,
                      method |-> method, params |-> outbound_data,
                      outcome |-> outcome])

\* one iteration of the loop of execute_routing: deliver_to_campaign on
\* targets[i]; the lead is the in-memory document, saved as a whole
Deliver ==
    /\ UNCHANGED tasks
    /\ router.pc = "deliver"
    /\ LET target == router.targets[router.i]
           d == target.campaign.destination_id
       IN  IF ~DestinationUsable(destinations, d)
           THEN /\ router' = Advance(router,
                                     [campaign_id |-> target.campaign.id,
                                      destination_id |-> d, usable |-> FALSE,
                                      method |-> "none",
                                      outcome |-> "none", status |-> "none",
                                      request |-> 0, result |-> 0])
                /\ UNCHANGED <<vendors, unknownFields, leads, httpLog>>
           ELSE \E m \in {apply_mapping(DictItems(router.lead.data),
                                        target.campaign.mapping, "routing",
                                        router.lead.owner_id, router.lead.tenant_id,
                                        NoneId, FALSE, systemFields, vendors,
                                        unknownFields, now)} :
                \E outcome \in HttpOutcomes(destinations[d].config) :
                \E lead \in {[router.lead EXCEPT !.routing_results =
                                 Append(@, RoutingResult(target, outcome, now))]} :
                \E requests \in {Requests(httpLog, router, target,
                                          destinations[d].config.method,
                                          InjectStatic(m.result,
                                                       target.campaign.mapping.rules,
                                                       1),
                                          outcome)} :
                   /\ vendors' = m.vendors
                   /\ unknownFields' = m.unknown
                   /\ httpLog' = requests
                   /\ leads' = [leads EXCEPT ![router.lead_id] = lead]
                   /\ router' = Advance([router EXCEPT !.lead = lead],
                                        [campaign_id |-> target.campaign.id,
                                         destination_id |-> d, usable |-> TRUE,
                                         method |-> destinations[d].config.method,
                                         outcome |-> outcome,
                                         status |-> ResultStatus(outcome),
                                         request |-> IF requests = httpLog THEN 0
                                                     ELSE Len(requests),
                                         result |-> Len(lead.routing_results)])
    /\ UNCHANGED <<systemFields, processQueue, routeQueue, now, lastJob, customers,
                   campaigns, destinations, lastApi, budget>>

----------------------------------------------------------------------------
(* core/celery_app.py: task_acks_late and task_reject_on_worker_lost.  A    *)
(* worker lost between two deliveries leaves what it saved so far, and the  *)
(* unacknowledged route_lead_task goes back to the queue.                   *)

WorkerLost ==
    /\ router.pc = "deliver"
    /\ budget.admin > 0
    /\ budget' = [budget EXCEPT !.admin = @ - 1]
    /\ router' = [router EXCEPT !.pc = "idle"]
    /\ routeQueue' = Append(routeQueue, router.lead_id)
    /\ UNCHANGED <<systemFields, vendors, unknownFields, leads, processQueue, now,
                   lastJob, customers, campaigns, destinations, httpLog, lastApi,
                   tasks>>

----------------------------------------------------------------------------
(* A second worker running route_lead_task beside the first: the same code, *)
(* its position kept in tasks.route.                                        *)

\* execute_routing(lead_id) up to the sorted list of targets, as worker r
RoutingStarted(r, lead_id) ==
    IF ~Routable(leads, lead_id)
    THEN [IdleRouter EXCEPT !.run = r.run + 1, !.lead_id = lead_id, !.at = now]
    ELSE [pc |-> IF SortByPriority(find_eligible_campaigns(leads[lead_id], customers,
                                                           campaigns, now)) = <<>>
                 THEN "idle" ELSE "deliver",
          run |-> r.run + 1,
          lead_id |-> lead_id,
          lead |-> leads[lead_id],
          targets |-> SortByPriority(find_eligible_campaigns(leads[lead_id], customers,
                                                             campaigns, now)),
          i |-> 1, log |-> <<>>, at |-> now]

RouteLeadOther(j) ==
    /\ tasks.route.pc = "idle"
    /\ j \in 1..Len(routeQueue)
    /\ routeQueue' = RemoveAt(routeQueue, j)
    /\ tasks' = [tasks EXCEPT !.route = RoutingStarted(@, routeQueue[j])]
    /\ UNCHANGED <<systemFields, vendors, unknownFields, leads, processQueue, now,
                   lastJob, customers, campaigns, destinations, router, httpLog,
                   lastApi, budget>>

\* one iteration of the second worker's loop: deliver_to_campaign on
\* targets[i], with the worker's own in-memory document, saved as a whole
DeliverOther ==
    /\ tasks.route.pc = "deliver"
    /\ LET r == tasks.route
           target == r.targets[r.i]
           d == target.campaign.destination_id
       IN  IF ~DestinationUsable(destinations, d)
           THEN /\ tasks' = [tasks EXCEPT !.route =
                                Advance(r, [campaign_id |-> target.campaign.id,
                                            destination_id |-> d, usable |-> FALSE,
                                            method |-> "none",
                                            outcome |-> "none", status |-> "none",
                                            request |-> 0, result |-> 0])]
                /\ UNCHANGED <<vendors, unknownFields, leads, httpLog>>
           ELSE \E m \in {apply_mapping(DictItems(r.lead.data),
                                        target.campaign.mapping, "routing",
                                        r.lead.owner_id, r.lead.tenant_id,
                                        NoneId, FALSE, systemFields, vendors,
                                        unknownFields, now)} :
                \E outcome \in HttpOutcomes(destinations[d].config) :
                \E lead \in {[r.lead EXCEPT !.routing_results =
                                 Append(@, RoutingResult(target, outcome, now))]} :
                \E requests \in {Requests(httpLog, r, target,
                                          destinations[d].config.method,
                                          InjectStatic(m.result,
                                                       target.campaign.mapping.rules,
                                                       1),
                                          outcome)} :
                   /\ vendors' = m.vendors
                   /\ unknownFields' = m.unknown
                   /\ httpLog' = requests
                   /\ leads' = [leads EXCEPT ![r.lead_id] = lead]
                   /\ tasks' = [tasks EXCEPT !.route =
                        Advance([r EXCEPT !.lead = lead],
                                [campaign_id |-> target.campaign.id,
                                 destination_id |-> d, usable |-> TRUE,
                                 method |-> destinations[d].config.method,
                                 outcome |-> outcome,
                                 status |-> ResultStatus(outcome),
                                 request |-> IF requests = httpLog THEN 0
                                             ELSE Len(requests),
                                 result |-> Len(lead.routing_results)])]
    /\ UNCHANGED <<systemFields, processQueue, routeQueue, now, lastJob, customers,
                   campaigns, destinations, router, lastApi, budget>>

----------------------------------------------------------------------------
(* api/v1/endpoints/customers.py: the approval workflow of destinations *)

approve_destination(d) ==
    /\ UNCHANGED tasks
    /\ budget.admin > 0
    /\ budget' = [budget EXCEPT !.admin = @ - 1]
    /\ destinations' = IF d \in DOMAIN destinations
                       THEN [destinations EXCEPT ![d].approval_status = "approved"]
                       ELSE destinations
    /\ UNCHANGED <<customers, campaigns, router, httpLog, lastApi, now>>
    /\ UNCHANGED ingestVars

reject_destination(d) ==
    /\ UNCHANGED tasks
    /\ budget.admin > 0
    /\ budget' = [budget EXCEPT !.admin = @ - 1]
    /\ destinations' = IF d \in DOMAIN destinations
                       THEN [destinations EXCEPT ![d].approval_status = "rejected"]
                       ELSE destinations
    /\ UNCHANGED <<customers, campaigns, router, httpLog, lastApi, now>>
    /\ UNCHANGED ingestVars

\* delete_destination: the document is deleted and the id unlinked from the
\* customer; the campaigns naming it are left as they are
delete_destination(c, d) ==
    /\ UNCHANGED tasks
    /\ budget.admin > 0
    /\ budget' = [budget EXCEPT !.admin = @ - 1]
    /\ IF InSeq(d, customers[c].destinations)
       THEN /\ destinations' = DictDel(destinations, d)
            /\ customers' = [customers EXCEPT ![c].destinations =
                                RemoveAt(@, FirstIndex({n \in 1..Len(@) : @[n] = d}))]
       ELSE UNCHANGED <<destinations, customers>>
    /\ UNCHANGED <<campaigns, router, httpLog, lastApi, now>>
    /\ UNCHANGED ingestVars

----------------------------------------------------------------------------
(* api/v1/endpoints/customers.py create_campaign, update_campaign *)

\* the checks made without the approval check
LinkRefusal_NoApproval(customer, dests, d) ==
    IF ~InSeq(d, customer.destinations) THEN "not_linked"
    ELSE IF d \notin DOMAIN dests THEN "not_found" ELSE "none"

\* the checks both handlers make on payload.destination_id, in their order
LinkRefusal(customer, dests, d) ==
    IF ~InSeq(d, customer.destinations) THEN "not_linked"
    ELSE IF d \notin DOMAIN dests THEN "not_found"
         ELSE IF dests[d].approval_status # "approved" THEN "not_approved"
              ELSE "none"

CreateDetail(refusal) ==
    CASE refusal = "not_linked" -> "Invalid destination ID (not linked to customer)"
      [] refusal = "not_found" -> "Destination not found"
      [] refusal = "not_approved" ->
            "Destination must be approved before linking to a campaign"

UpdateDetail(refusal) ==
    IF refusal = "not_linked" THEN "Invalid destination ID"
    ELSE "Destination must be approved before linking to a campaign"

Reply(kind, c, campaign_id, destination_id, status, detail) ==
    [kind |-> kind, seq |-> lastApi.seq + 1, customer |-> c,
     campaign_id |-> campaign_id, destination_id |-> destination_id,
     status |-> status, detail |-> detail]

create_campaign(c, name, destination_id) ==
    /\ UNCHANGED tasks
    /\ budget.api > 0
    /\ budget' = [budget EXCEPT !.api = @ - 1]
    /\ \E refusal \in {LinkRefusal(customers[c], destinations, destination_id)} :
          IF refusal # "none"
          THEN /\ lastApi' = Reply("create_campaign", c, 0, destination_id, 400,
                                   CreateDetail(refusal))
               /\ UNCHANGED <<campaigns, customers>>
          ELSE /\ campaigns' = Append(campaigns,
                                      Campaign(Len(campaigns) + 1, name,
                                               destination_id,
                                               CampaignConfig(0, NoCaps, AllDay),
                                               NoFilter, <<>>))
               /\ customers' = [customers EXCEPT ![c].campaigns =
                                   Append(@, Len(campaigns) + 1)]
               /\ lastApi' = Reply("create_campaign", c, Len(campaigns) + 1,
                                   destination_id, 200, "")
    /\ UNCHANGED <<destinations, router, httpLog, now>>
    /\ UNCHANGED ingestVars

\* name and destination_id are None (NoneVal, NoneId) when the payload omits
\* them; campaign.save() is the last statement, so a refusal stores nothing
update_campaign(c, campaign_id, name, destination_id) ==
    /\ UNCHANGED tasks
    /\ budget.api > 0
    /\ budget' = [budget EXCEPT !.api = @ - 1]
    /\ IF ~InSeq(campaign_id, customers[c].campaigns)
       THEN /\ lastApi' = Reply("update_campaign", c, campaign_id, destination_id,
                                404, "Campaign not found on this customer")
            /\ UNCHANGED campaigns
       ELSE IF campaign_id \notin 1..Len(campaigns)
       THEN /\ lastApi' = Reply("update_campaign", c, campaign_id, destination_id,
                                404, "Campaign not found")
            /\ UNCHANGED campaigns
       ELSE \E refusal \in {IF destination_id = NoneId THEN "none"
                            ELSE LinkRefusal(customers[c], destinations,
                                             destination_id)} :
              IF refusal # "none"
              THEN /\ lastApi' = Reply("update_campaign", c, campaign_id,
                                       destination_id, 400, UpdateDetail(refusal))
                   /\ UNCHANGED campaigns
              ELSE /\ campaigns' =
                         [campaigns EXCEPT
                            ![campaign_id].name =
                                IF name # NoneVal THEN name ELSE @,
                            ![campaign_id].destination_id =
                                IF destination_id # NoneId THEN destination_id
                                ELSE @]
                   /\ lastApi' = Reply("update_campaign", c, campaign_id,
                                       destination_id, 200, "")
    /\ UNCHANGED <<customers, destinations, router, httpLog, now>>
    /\ UNCHANGED ingestVars

----------------------------------------------------------------------------
(* Fan-out: customer c1 owns campaign 3, customer c2 campaigns 1 and 2, so   *)
(* the campaigns are discovered in the order 3, 1, 2.  Campaign 1 refuses    *)
(* email "b" and maps email to mail; destination d2 takes POST, d1 and d3    *)
(* GET; d3 may be pending or disabled.                                       *)

RouteCampaigns(prio) ==
    <<Campaign(1, <<"A">>, "d1", CampaignConfig(prio[1], NoCaps, AllDay),
               Group("and", <<Cond(K_email, "neq", <<"b">>)>>),
               <<MappingRule(K_email, <<"m", "a", "i", "l">>),
                 StaticRule(<<"k">>, <<"v">>)>>),
      Campaign(2, <<"B">>, "d2", CampaignConfig(prio[2], NoCaps, AllDay),
               NoFilter, <<>>),
      Campaign(3, <<"C">>, "d3", CampaignConfig(prio[3], NoCaps, AllDay),
               NoFilter, <<>>)>>

RouteCustomers == <<Customer("c1", <<"d3">>, <<3>>), Customer("c2", <<"d1", "d2">>, <<1, 2>>)>>

RouteDestinations(d3) ==
    [d \in {"d1", "d2", "d3"} |->
        IF d = "d1" THEN Destination("GET", "approved", TRUE)
        ELSE IF d = "d2" THEN Destination("POST", "approved", TRUE)
             ELSE d3]

RoutePayloads == { << <<K_email, <<"a">>>> >>, << <<K_email, <<"b">>>> >> }

InitRoute ==
    \E prio \in {<<1, 1, 1>>, <<2, 1, 1>>, <<1, 2, 2>>} :
    \E d3 \in {Destination("GET", "approved", TRUE),
               Destination("GET", "pending", TRUE),
               Destination("GET", "approved", FALSE)} :
       InitWith(PlainVendors, <<EmailField>>, RouteCustomers, RouteCampaigns(prio),
                RouteDestinations(d3))

NextRoute ==
    \/ \E p \in RoutePayloads : Ingest("s1", p)
    \/ \E j \in 1..Len(processQueue) : ProcessLead(j)
    \/ \E j \in 1..Len(routeQueue) : RouteLead(j)
    \/ Deliver
    \/ approve_destination("d3")
    \/ \E d \in {"d1", "d3"} : reject_destination(d)
    \/ \E c \in 1..Len(customers) : delete_destination(c, "d1")

SpecRoute == InitRoute /\ [][NextRoute]_vars

\* a routing run has been started and its loop has ended
RunDone == router.run > 0 /\ router.pc = "idle"

\* the requests the current run handed to the HTTP client for campaign k
RunRequests(k) ==
    {h \in 1..Len(httpLog) : /\ httpLog[h].run = router.run
                             /\ httpLog[h].campaign_id = k}

Priority(n) == router.targets[n].campaign.config.priority

HttpFailures == {"non_2xx", "transport_error", "timeout"}

\* C4. Broadcast fan-out: when a run on a processed record has ended, every
\* target that passed candidate generation has been taken up exactly once,
\* in the order of the list, and each of them whose endpoint was enabled and
\* approved at delivery time has had exactly one HTTP request made for it in
\* this run.
BroadcastFanOut ==
    RunDone =>
       /\ Len(router.log) = Len(router.targets)
       /\ \A n \in 1..Len(router.targets) :
             /\ router.log[n].campaign_id = router.targets[n].campaign.id
             /\ \A m \in 1..Len(router.targets) :
                   router.targets[m].campaign.id = router.targets[n].campaign.id
                      => m = n
             /\ router.log[n].usable =>
                   Cardinality(RunRequests(router.targets[n].campaign.id)) = 1

\* C5. Attempt ordering: the targets of a run are taken up in descending
\* priority, equal priorities in the order candidate generation found them,
\* and the requests and the DeliveryResults of the run follow that order.
AttemptOrdering ==
    /\ \A m, n \in 1..Len(router.targets) :
          m < n => /\ Priority(m) >= Priority(n)
                   /\ Priority(m) = Priority(n) =>
                         router.targets[m].found < router.targets[n].found
    /\ Len(router.log) <= Len(router.targets)
    /\ \A n \in 1..Len(router.log) :
          router.log[n].campaign_id = router.targets[n].campaign.id
    /\ \A m, n \in 1..Len(router.log) :
          m < n => /\ (router.log[m].request > 0 /\ router.log[n].request > 0) =>
                         router.log[m].request < router.log[n].request
                   /\ (router.log[m].result > 0 /\ router.log[n].result > 0) =>
                         router.log[m].result < router.log[n].result

\* a run of three targets in which the target found second went first, the
\* two others tie, and two requests were made one after the other
AttemptOrderingWitness ==
    /\ RunDone
    /\ Len(router.targets) = 3
    /\ router.targets[1].found = 2
    /\ Priority(2) = Priority(3)
    /\ router.log[1].request > 0
    /\ router.log[2].request > router.log[1].request
    /\ router.log[3].result > router.log[2].result

\* C6. Failure isolation: when the dispatch to a target of a run has failed,
\* the loop still takes up every later target, and each later target whose
\* endpoint is usable goes through its own dispatch and gets a DeliveryResult
\* of its own (and its own HTTP request when the endpoint takes GET).
FailureIsolation ==
    \A m \in 1..Len(router.log) :
       router.log[m].status = "failed" =>
          /\ router.pc = "idle" => Len(router.log) = Len(router.targets)
          /\ router.pc = "deliver" => router.i = Len(router.log) + 1
          /\ \A n \in 1..Len(router.log) :
                (m < n /\ router.log[n].usable) =>
                   /\ router.log[n].outcome # "none"
                   /\ router.log[n].result > router.log[m].result
                   /\ leads[router.lead_id].routing_results[router.log[n].result]
                         .campaign_id = router.log[n].campaign_id
                   /\ router.log[n].method = "GET"
                         => Cardinality(RunRequests(router.log[n].campaign_id)) = 1

\* a run that has ended, in which a request timed out and a later target was
\* delivered
FailureIsolationWitness ==
    /\ RunDone
    /\ \E m, n \in 1..Len(router.log) :
          /\ m < n
          /\ router.log[m].outcome \in HttpFailures
          /\ router.log[n].status = "delivered"

\* C7. Dispatch outcome recording: the stored record carries exactly one
\* DeliveryResult per dispatch made for it, "delivered" with no error_message
\* when the response was 2xx and "failed" with the error text otherwise, and
\* the loop goes on after each of them.
DispatchOutcomeRecorded ==
    (router.run > 0 /\ router.lead_id \in 1..Len(leads)) =>
       /\ Len(leads[router.lead_id].routing_results)
             = Cardinality({n \in 1..Len(router.log) : router.log[n].usable})
       /\ router.pc = "idle" => Len(router.log) = Len(router.targets)
       /\ \A n \in 1..Len(router.log) :
             router.log[n].usable =>
                /\ router.log[n].result \in 1..Len(leads[router.lead_id].routing_results)
                /\ \A m \in 1..Len(router.log) :
                      router.log[m].result = router.log[n].result => m = n
                /\ leads[router.lead_id].routing_results[router.log[n].result]
                      .campaign_id = router.log[n].campaign_id
                /\ router.log[n].outcome = "2xx" =>
                      /\ leads[router.lead_id].routing_results[router.log[n].result]
                            .status = "delivered"
                      /\ leads[router.lead_id].routing_results[router.log[n].result]
                            .error_message = NoneVal
                /\ router.log[n].outcome # "2xx" =>
                      /\ leads[router.lead_id].routing_results[router.log[n].result]
                            .status = "failed"
                      /\ Truthy(leads[router.lead_id].routing_results[router.log[n].result]
                                   .error_message)
                      /\ leads[router.lead_id].routing_results[router.log[n].result]
                            .error_message # NoneVal

\* a stored record with a delivered result followed by a failed one, the
\* response having been non-2xx
DispatchOutcomeRecordedWitness ==
    /\ router.run > 0
    /\ \E m, n \in 1..Len(router.log) :
          /\ m < n
          /\ router.log[m].outcome = "2xx"
          /\ router.log[n].outcome = "non_2xx"
          /\ leads[router.lead_id].routing_results[router.log[n].result].status
                = "failed"

\* the step taken is one iteration of the delivery loop
Delivering ==
    /\ router.pc = "deliver"
    /\ router'.run = router.run
    /\ Len(router'.log) = Len(router.log) + 1

\* C9. Dispatch-time approval: a request is handed to the HTTP client only in
\* a delivery step whose re-fetch finds the endpoint present, enabled and
\* approved; a delivery step whose re-fetch does not makes no request, leaves
\* the record without a new DeliveryResult, and goes on to the next target.
ApprovedOnly ==
    [][ /\ httpLog' # httpLog => Delivering
        /\ Delivering =>
             \/ /\ router.targets[router.i].campaign.destination_id
                      \in DOMAIN destinations
                /\ destinations[router.targets[router.i].campaign.destination_id]
                      .enabled
                /\ destinations[router.targets[router.i].campaign.destination_id]
                      .approval_status = "approved"
             \/ /\ httpLog' = httpLog
                /\ leads' = leads
                /\ router'.lead = router.lead
                /\ router'.i = router.i + 1
                /\ router'.pc = IF router.i < Len(router.targets)
                                THEN "deliver" ELSE "idle" ]_vars

\* a run in which a target was skipped because its endpoint had been rejected
\* and a later target had its request made
ApprovedOnlyWitness ==
    \E m, n \in 1..Len(router.log) :
       /\ m < n
       /\ ~router.log[m].usable
       /\ router.log[m].result = 0
       /\ RunRequests(router.log[m].campaign_id) = {}
       /\ router.log[m].destination_id \in DOMAIN destinations
       /\ destinations[router.log[m].destination_id].approval_status = "rejected"
       /\ router.log[n].request > 0

----------------------------------------------------------------------------
(* Daily cap: customer c1 owns campaigns 1 and 2, both unfiltered and on GET *)
(* endpoints; campaign 2 has a Thursday cap of 0 or 1.  The clock starts on  *)
(* a Thursday and may advance by a day.                                      *)

CapCampaigns(N) ==
    <<Campaign(1, <<"A">>, "d1", CampaignConfig(0, NoCaps, AllDay), NoFilter, <<>>),
      Campaign(2, <<"B">>, "d2",
               CampaignConfig(0, [NoCaps EXCEPT !["thursday"] = N], AllDay),
               NoFilter, <<>>)>>

CapCustomers == <<Customer("c1", <<"d1", "d2">>, <<1, 2>>)>>

CapDestinations == [d \in {"d1", "d2"} |-> Destination("GET", "approved", TRUE)]

InitCap ==
    \E N \in {0, 1} :
       InitWith(PlainVendors, <<EmailField>>, CapCustomers, CapCampaigns(N),
                CapDestinations)

NextCap ==
    \/ Ingest("s1", << <<K_email, <<"a">>>> >>)
    \/ \E j \in 1..Len(processQueue) : ProcessLead(j)
    \/ \E j \in 1..Len(routeQueue) : RouteLead(j)
    \/ Deliver
    \/ Tick(24)

SpecCap == InitCap /\ [][NextCap]_vars

DayStart(t) == (t \div 24) * 24

\* the delivered results for campaign k since the start of the day of t, on
\* the leads in ids
DeliveredSince(k, t, ids) ==
    {<<i, n>> \in ids \X (1..Len(campaigns)) :
        /\ n <= Len(leads[i].routing_results)
        /\ leads[i].routing_results[n].campaign_id = k
        /\ leads[i].routing_results[n].status = "delivered"
        /\ leads[i].routing_results[n].delivered_at >= DayStart(t)}

TargetIds == {router.targets[n].campaign.id : n \in 1..Len(router.targets)}

\* C8. Daily cap, sequential runs: for a campaign with a cap N for the weekday
\* of the run, which the record of the run passes otherwise, the run takes the
\* campaign as a target when fewer than N results were delivered to it since
\* day-start in the earlier runs, and does not when N were; the delivered
\* results since day-start never exceed N.
DailyCapSequential ==
    \A k \in 1..Len(campaigns) :
       (/\ router.run > 0
        /\ router.lead_id \in 1..Len(leads)
        /\ leads[router.lead_id].status = "processed"
        /\ campaigns[k].config.caps[weekday(router.at)] # NoCap
        /\ campaigns[k].config.status = "enabled"
        /\ ScheduleOpen(campaigns[k].config, router.at)
        /\ evaluate_rules(router.lead.data, campaigns[k].rules)) =>
          /\ Cardinality(DeliveredSince(k, router.at, 1..Len(leads)))
                <= campaigns[k].config.caps[weekday(router.at)]
          /\ k \in TargetIds <=>
                Cardinality(DeliveredSince(k, router.at,
                                           (1..Len(leads)) \ {router.lead_id}))
                   < campaigns[k].config.caps[weekday(router.at)]

----------------------------------------------------------------------------
(* Two routing workers: the deployment of the cap check with a Thursday cap *)
(* of 1 or 2 on campaign 2, two records ingested, and two workers that take *)
(* route jobs from the queue and run them side by side.                     *)

InitRace ==
    \E N \in {1, 2} :
       InitWith(PlainVendors, <<EmailField>>, CapCustomers, CapCampaigns(N),
                CapDestinations)

NextRace ==
    \/ Ingest("s1", << <<K_email, <<"a">>>> >>)
    \/ \E j \in 1..Len(processQueue) : ProcessLead(j)
    \/ \E j \in 1..Len(routeQueue) : RouteLead(j)
    \/ Deliver
    \/ \E j \in 1..Len(routeQueue) : RouteLeadOther(j)
    \/ DeliverOther

SpecRace == InitRace /\ [][NextRace]_vars

\* worker r has run the gate for a record that campaign k admits but for its cap
GateRan(r, k) ==
    /\ r.run > 0
    /\ r.lead_id \in 1..Len(leads)
    /\ leads[r.lead_id].status = "processed"
    /\ campaigns[k].config.caps[weekday(r.at)] # NoCap
    /\ campaigns[k].config.status = "enabled"
    /\ ScheduleOpen(campaigns[k].config, r.at)
    /\ evaluate_rules(r.lead.data, campaigns[k].rules)

\* the delivered results for campaign k since day-start on the records other
\* than the one worker r routes
DeliveredElsewhere(r, k) ==
    Cardinality(DeliveredSince(k, r.at, (1..Len(leads)) \ {r.lead_id}))

\* C23. Capacity gates under concurrency: the delivered count is read and
\* compared without locking, so each of two routing jobs that run side by
\* side passes the cap gate of a target with cap N as long as fewer than N
\* delivered results are recorded for it on the other records.
ConcurrentCapGate ==
    \A r \in {router, tasks.route} : \A k \in 1..Len(campaigns) :
       (GateRan(r, k) /\ DeliveredElsewhere(r, k) < campaigns[k].config.caps[weekday(r.at)])
          => \E n \in 1..Len(r.targets) : r.targets[n].campaign.id = k

\* the delivered results of a campaign since day-start stay within the cap
\* of the day: with two workers side by side no overshoot is reached
CapNeverExceeded ==
    \A k \in 1..Len(campaigns) :
       campaigns[k].config.caps[weekday(now)] # NoCap =>
          Cardinality(DeliveredSince(k, now, 1..Len(leads)))
             <= campaigns[k].config.caps[weekday(now)]

\* both workers are in their delivery loops at once, on different records
BothRouting ==
    /\ router.pc = "deliver" /\ tasks.route.pc = "deliver"
    /\ router.lead_id # tasks.route.lead_id

----------------------------------------------------------------------------
(* Schedule: campaign 1 has a window (or is all day with a window set) and  *)
(* may have a Thursday cap; campaign 2, visited after it, is all day and    *)
(* uncapped.  The clock starts at 00:00 on a Thursday and advances by hours. *)

HHMM(h, m) == TwoDigits(h) \o <<":">> \o TwoDigits(m)

Window(all_day, start_time, end_time) ==
    [all_day |-> all_day, start_time |-> start_time, end_time |-> end_time]

Schedules ==
    {Window(FALSE, HHMM(1, 0), HHMM(1, 0)),
     Window(FALSE, HHMM(0, 0), HHMM(0, 30)),
     Window(FALSE, HHMM(2, 0), HHMM(1, 0)),
     Window(TRUE, HHMM(1, 0), HHMM(1, 0))}

ScheduleCampaigns(schedule, N) ==
    <<Campaign(1, <<"A">>, "d1",
               CampaignConfig(0, [NoCaps EXCEPT !["thursday"] = N], schedule),
               NoFilter, <<>>),
      Campaign(2, <<"B">>, "d2", CampaignConfig(0, NoCaps, AllDay), NoFilter, <<>>)>>

InitSchedule ==
    \E schedule \in Schedules : \E N \in {NoCap, 1} :
       InitWith(PlainVendors, <<EmailField>>, CapCustomers,
                ScheduleCampaigns(schedule, N), CapDestinations)

NextSchedule ==
    \/ Ingest("s1", << <<K_email, <<"a">>>> >>)
    \/ \E j \in 1..Len(processQueue) : ProcessLead(j)
    \/ \E j \in 1..Len(routeQueue) : RouteLead(j)
    \/ Deliver
    \/ Tick(1)

SpecSchedule == InitSchedule /\ [][NextSchedule]_vars

\* the HH:MM of t lies in [start_time, end_time], both bounds included
WithinWindow(config, t) ==
    /\ ~StrLess(current_time_str(t), config.start_time)
    /\ ~StrLess(config.end_time, current_time_str(t))

\* a run has generated its candidates for a processed record
RunOnRecord ==
    /\ router.run > 0
    /\ router.lead_id \in 1..Len(leads)
    /\ leads[router.lead_id].status = "processed"

\* C24. Schedule gate: a campaign that is not all day is a target of a run
\* only when the HH:MM of the run lies within [start_time, end_time], bounds
\* included, and, without a cap, whenever it does; outside the window it is
\* no target and gets no attempt whatever its cap says, and its cap is not
\* consulted, so the campaigns after it are still found; an all-day campaign
\* is a target whatever its start_time and end_time.
ScheduleGate ==
    RunOnRecord =>
       LET config == campaigns[1].config
           open == config.all_day \/ WithinWindow(config, router.at)
       IN  /\ 1 \in TargetIds => open
           /\ ~open => /\ 2 \in TargetIds
                       /\ \A n \in 1..Len(router.log) : router.log[n].campaign_id # 1
           /\ (open /\ config.caps[weekday(router.at)] = NoCap) => 1 \in TargetIds

\* a run at 02:00 passed over campaign 1, whose window is 01:00-01:00 and
\* whose cap is set, and delivered to the campaign after it
ScheduleGateWitness ==
    /\ RunOnRecord
    /\ router.pc = "idle"
    /\ ~campaigns[1].config.all_day
    /\ campaigns[1].config.start_time = HHMM(1, 0)
    /\ campaigns[1].config.end_time = HHMM(1, 0)
    /\ router.at = 2
    /\ campaigns[1].config.caps["thursday"] # NoCap
    /\ \E n \in 1..Len(router.log) : router.log[n].campaign_id = 2
    /\ \A n \in 1..Len(router.log) : router.log[n].campaign_id # 1

----------------------------------------------------------------------------
(* Scoping: vendor v1 (sources s1, s2) is of tenant t1 and vendor v2        *)
(* (source s3) of tenant t2.  Customer c1 (t1, enabled) links campaign 1,   *)
(* the disabled campaign 2, campaign 3 of tenant t2 and campaign 4, which   *)
(* allows source s2 only; the disabled customer c2 links campaign 5; the    *)
(* customer c3 of tenant t2 links campaign 6.                               *)

OtherTenant == "t2"

ScopeVendors ==
    [v \in {"v1", "v2"} |->
        IF v = "v1"
        THEN Vendor(<<Source("s1", NoDedupe, <<>>, NoFilter),
                      Source("s2", NoDedupe, <<>>, NoFilter)>>)
        ELSE [Vendor(<<Source("s3", NoDedupe, <<>>, NoFilter)>>)
                 EXCEPT !.tenant_id = OtherTenant]]

PlainCampaign(id) ==
    Campaign(id, <<"A">>, "d1", CampaignConfig(0, NoCaps, AllDay), NoFilter, <<>>)

ScopeCampaigns ==
    <<PlainCampaign(1),
      [PlainCampaign(2) EXCEPT !.config.status = "disabled"],
      [PlainCampaign(3) EXCEPT !.tenant_id = OtherTenant],
      [PlainCampaign(4) EXCEPT !.source_ids = <<"s2">>],
      PlainCampaign(5),
      [PlainCampaign(6) EXCEPT !.tenant_id = OtherTenant]>>

ScopeCustomers ==
    <<Customer("c1", <<"d1">>, <<1, 2, 3, 4>>),
      [Customer("c2", <<"d1">>, <<5>>) EXCEPT !.status = "disabled"],
      [Customer("c3", <<"d1">>, <<6>>) EXCEPT !.tenant_id = OtherTenant]>>

ScopeDestinations == [d \in {"d1"} |-> Destination("GET", "approved", TRUE)]

InitScope ==
    InitWith(ScopeVendors, <<EmailField>>, ScopeCustomers, ScopeCampaigns,
             ScopeDestinations)

NextScope ==
    \/ \E s \in {"s1", "s2", "s3"} : Ingest(s, << <<K_email, <<"a">>>> >>)
    \/ \E j \in 1..Len(processQueue) : ProcessLead(j)
    \/ \E j \in 1..Len(routeQueue) : RouteLead(j)
    \/ Deliver

SpecScope == InitScope /\ [][NextScope]_vars

\* customer_id names an enabled customer of the lead's tenant that links
\* campaign k, and campaign k is enabled, of the lead's tenant, and allows
\* the lead's source
InScope(lead, customer_id, k) ==
    /\ \E c \in 1..Len(customers) :
          /\ customers[c].id = customer_id
          /\ customers[c].tenant_id = lead.tenant_id
          /\ customers[c].status = "enabled"
          /\ InSeq(k, customers[c].campaigns)
    /\ k \in 1..Len(campaigns)
    /\ campaigns[k].tenant_id = lead.tenant_id
    /\ campaigns[k].config.status = "enabled"
    /\ \/ campaigns[k].source_ids = <<>>
       \/ InSeq(lead.source_id, campaigns[k].source_ids)

\* C25. Candidate scoping: every target of a run, every request sent and every
\* result stored on a record names a customer and a campaign of the record's
\* tenant, both enabled, the customer linking the campaign, and the campaign's
\* source allow-list empty or containing the record's source.
CandidateScoping ==
    /\ \A i \in 1..Len(leads) : \A n \in 1..Len(leads[i].routing_results) :
          InScope(leads[i], leads[i].routing_results[n].customer_id,
                  leads[i].routing_results[n].campaign_id)
    /\ \A n \in 1..Len(httpLog) :
          \E c \in 1..Len(customers) :
             InScope(leads[httpLog[n].lead_id], customers[c].id, httpLog[n].campaign_id)
    /\ \A n \in 1..Len(router.targets) :
          InScope(router.lead, router.targets[n].customer_id,
                  router.targets[n].campaign.id)

\* the run for a record of source s1 is over and the record has one result,
\* for campaign 1; the run for a record of source s2 has delivered to campaign
\* 4 as well
CandidateScopingWitness ==
    /\ router.pc = "idle"
    /\ \E i \in 1..Len(leads) :
          /\ leads[i].source_id = "s1"
          /\ Len(leads[i].routing_results) = 1
          /\ leads[i].routing_results[1].campaign_id = 1
    /\ \E i \in 1..Len(leads) :
          /\ leads[i].source_id = "s2"
          /\ Len(leads[i].routing_results) = 2
          /\ leads[i].routing_results[2].campaign_id = 4

----------------------------------------------------------------------------
(* Repeated routing: customer c1 links the campaigns 1 and 2 on the GET     *)
(* destination d1.  A run may lose its worker between two deliveries and be *)
(* delivered again, and route tasks also arrive again for a routed record.  *)

RerunCampaigns == <<PlainCampaign(1), PlainCampaign(2)>>

RerunCustomers == <<Customer("c1", <<"d1">>, <<1, 2>>)>>

InitRerun ==
    InitWith(PlainVendors, <<EmailField>>, RerunCustomers, RerunCampaigns,
             ScopeDestinations)

NextRerun ==
    \/ Ingest("s1", << <<K_email, <<"a">>>> >>)
    \/ \E j \in 1..Len(processQueue) : ProcessLead(j)
    \/ \E j \in 1..Len(routeQueue) : RouteLead(j)
    \/ \E lead_id \in 1..Len(leads) : RouteAny(lead_id)
    \/ Deliver
    \/ WorkerLost

SpecRerun == InitRerun /\ [][NextRerun]_vars

\* the results stored on lead i for campaign k
ResultsFor(i, k) ==
    {n \in 1..Len(leads[i].routing_results) :
        leads[i].routing_results[n].campaign_id = k}

\* the requests made for lead i and campaign k, over all runs
RequestsFor(i, k) ==
    {h \in 1..Len(httpLog) : httpLog[h].lead_id = i /\ httpLog[h].campaign_id = k}

\* no record changes its status, and results are only appended
StatusKept ==
    \A i \in 1..Len(leads) :
       /\ leads'[i].status = leads[i].status
       /\ IsPrefix(leads[i].routing_results, leads'[i].routing_results)

\* every run on a processed record takes both campaigns as targets, whatever
\* results the record already has
AttemptedAgain ==
    RunOnRecord => \A k \in 1..Len(campaigns) : k \in TargetIds

\* each request made for a record and a campaign has a result of its own
ResultPerAttempt ==
    \A i \in 1..Len(leads) : \A k \in 1..Len(campaigns) :
       /\ Cardinality(ResultsFor(i, k)) = Cardinality(RequestsFor(i, k))
       /\ ResultsFor(i, k) # {} => leads[i].status = "processed"

\* C26. Routing does not change status and is not deduplicated: no step of a
\* routing run changes a record's status, after a complete run and after one
\* that lost its worker between two deliveries the record is processed with
\* the results appended so far, and a further run on the same record takes
\* every eligible campaign again and appends one more result for each
\* delivery it makes.
RoutingNotDeduplicated ==
    /\ [][StatusKept]_vars
    /\ []AttemptedAgain
    /\ []ResultPerAttempt

\* a run lost its worker after its first delivery, and the run that followed
\* has ended: the record is processed and has two results for campaign 1 and
\* one for campaign 2
RoutingNotDeduplicatedWitness ==
    /\ budget.admin = 0
    /\ router.run = 2 /\ router.pc = "idle"
    /\ Len(leads) = 1
    /\ leads[1].status = "processed"
    /\ Cardinality(ResultsFor(1, 1)) = 2
    /\ Cardinality(ResultsFor(1, 2)) = 1

----------------------------------------------------------------------------
(* Linking: customer c1 has the approved destination d1 and the pending d2   *)
(* and owns campaign 1 on d1; customer c2 has the approved destination d3.   *)
(* d9 names no destination.                                                  *)

LinkCustomers == <<Customer("c1", <<"d1", "d2">>, <<1>>), Customer("c2", <<"d3">>, <<>>)>>

LinkCampaigns ==
    <<Campaign(1, <<"A">>, "d1", CampaignConfig(0, NoCaps, AllDay), NoFilter, <<>>)>>

LinkDestinations ==
    [d \in {"d1", "d2", "d3"} |->
        IF d = "d2" THEN Destination("POST", "pending", TRUE)
        ELSE Destination("POST", "approved", TRUE)]

InitLink ==
    InitWith(PlainVendors, <<>>, LinkCustomers, LinkCampaigns, LinkDestinations)

NextLink ==
    \/ \E c \in 1..Len(customers) : \E d \in {"d1", "d2", "d3", "d9"} :
          create_campaign(c, <<"N">>, d)
    \/ \E c \in 1..Len(customers) : \E k \in 1..2 :
       \E name \in {NoneVal, <<"R">>} : \E d \in {NoneId, "d1", "d2", "d3", "d9"} :
          update_campaign(c, k, name, d)
    \/ approve_destination("d2")
    \/ reject_destination("d1")
    \/ delete_destination(1, "d1")

SpecLink == InitLink /\ [][NextLink]_vars

\* C10. Link-time approval: a call that creates a campaign, or that names a
\* new destination for a campaign, with a destination that is missing, not
\* linked to the customer, or not approved, is answered with an error and
\* leaves the campaigns and the customers' campaign lists as they were.
ApprovedLinkOnly ==
    [][ (/\ lastApi'.seq # lastApi.seq
         /\ lastApi'.destination_id # NoneId
         /\ \/ lastApi'.destination_id \notin DOMAIN destinations
            \/ ~InSeq(lastApi'.destination_id,
                      customers[lastApi'.customer].destinations)
            \/ destinations[lastApi'.destination_id].approval_status # "approved")
        => /\ lastApi'.status \in {400, 404}
           /\ campaigns' = campaigns
           /\ customers' = customers ]_vars

\* an update naming the pending destination d2 for campaign 1 was refused:
\* the campaign keeps its destination and its name, and no campaign was added
ApprovedLinkOnlyWitness ==
    /\ lastApi.kind = "update_campaign"
    /\ lastApi.status = 400
    /\ lastApi.destination_id = "d2"
    /\ destinations["d2"].approval_status = "pending"
    /\ campaigns = LinkCampaigns

----------------------------------------------------------------------------
(* Routing gate: source s1 refuses email "b"; customer c1 owns campaign 1 on *)
(* the GET destination d1.  Route tasks also arrive for arbitrary lead ids.  *)

GateVendors ==
    [v \in {"v1", "v2"} |->
        IF v = "v1"
        THEN Vendor(<<Source("s1", NoDedupe, <<>>,
                             Group("and", <<Cond(K_email, "neq", <<"b">>)>>)),
                      Source("s2", NoDedupe, <<>>, NoFilter)>>)
        ELSE Vendor(<<Source("s3", NoDedupe, <<>>, NoFilter)>>)]

GateCampaigns ==
    <<Campaign(1, <<"A">>, "d1", CampaignConfig(0, NoCaps, AllDay), NoFilter, <<>>)>>

GateCustomers == <<Customer("c1", <<"d1">>, <<1>>)>>

GateDestinations == [d \in {"d1"} |-> Destination("GET", "approved", TRUE)]

InitGate ==
    InitWith(GateVendors, <<EmailField>>, GateCustomers, GateCampaigns,
             GateDestinations)

NextGate ==
    \/ \E p \in RoutePayloads : Ingest("s1", p)
    \/ \E j \in 1..Len(processQueue) : ProcessLead(j)
    \/ \E j \in 1..Len(routeQueue) : RouteLead(j)
    \/ \E lead_id \in 1..(Len(leads) + 1) : RouteAny(lead_id)
    \/ Deliver

SpecGate == InitGate /\ [][NextGate]_vars

\* C11. Routing acts only on processed records: a route job is queued only for
\* a stored record with status "processed"; a run of execute_routing on a
\* record that is missing or not processed has no target, makes no request
\* and appends nothing; so a rejected record never has a DeliveryResult.
RoutingOnlyProcessed ==
    /\ \A j \in 1..Len(routeQueue) :
          /\ routeQueue[j] \in 1..Len(leads)
          /\ leads[routeQueue[j]].status = "processed"
    /\ \A i \in 1..Len(leads) :
          leads[i].status = "rejected" => leads[i].routing_results = <<>>
    /\ \A h \in 1..Len(httpLog) : leads[httpLog[h].lead_id].status = "processed"
    /\ (/\ router.run > 0
        /\ \/ router.lead_id \notin 1..Len(leads)
           \/ leads[router.lead_id].status # "processed") =>
          /\ router.pc = "idle"
          /\ router.targets = <<>>
          /\ router.log = <<>>
          /\ \A h \in 1..Len(httpLog) : httpLog[h].run # router.run

\* execute_routing has run on a rejected record, after another record was
\* delivered
RoutingOnlyProcessedWitness ==
    /\ router.run > 1
    /\ router.lead_id \in 1..Len(leads)
    /\ leads[router.lead_id].status = "rejected"
    /\ httpLog # <<>>


----------------------------------------------------------------------------
(* UnknownFieldService.map_unknown_field, one step per group of awaits that *)
(* ends in a write                                                          *)

\* the elements of a finite set in a fixed order (the order of a find())
RECURSIVE SetToSeq(_)
SetToSeq(S) ==
    IF S = {} THEN <<>>
    ELSE LET x == CHOOSE y \in S : TRUE IN <<x>> \o SetToSeq(S \ {x})

\* RemapRules that leaves a null-target rule as it is
RemapRules_KeepNull(rules, rule, is_listed, field, target) ==
    IF rule = 0 /\ is_listed
    THEN [rules |-> Append(rules, MappingRule(field, target)), should_update |-> TRUE]
    ELSE [rules |-> rules, should_update |-> FALSE]

\* lines 153-177 on one source: the rule list after it and whether it changed
RemapRules(rules, rule, is_listed, field, target) ==
    IF rule # 0
    THEN IF rules[rule].target_field = NoneVal
         THEN [rules |-> [rules EXCEPT ![rule].target_field = target],
               should_update |-> TRUE]
         ELSE [rules |-> rules, should_update |-> FALSE]
    ELSE IF is_listed
         THEN [rules |-> Append(rules, MappingRule(field, target)),
               should_update |-> TRUE]
         ELSE [rules |-> rules, should_update |-> FALSE]

RemapSource(s, source_id, source_ids_with_field, field, target, scope) ==
    IF scope = "source" /\ s.id # source_id
    THEN [rules |-> s.mapping.rules, should_update |-> FALSE]
    ELSE RemapRules(s.mapping.rules,
                    FirstIndex({i \in 1..Len(s.mapping.rules) :
                                  s.mapping.rules[i].source_field = field}),
                    s.id = source_id \/ s.id \in source_ids_with_field,
                    field, target)

\* the loop over v.sources: the document as it would be saved, and the ids of
\* the sources it changed, in order
RemapVendor(v, source_id, source_ids_with_field, field, target, scope) ==
    LET r == [i \in 1..Len(v.sources) |->
                RemapSource(v.sources[i], source_id, source_ids_with_field,
                            field, target, scope)]
    IN  [doc |-> [v EXCEPT !.sources =
                     [i \in 1..Len(v.sources) |->
                        [v.sources[i] EXCEPT !.mapping.rules = r[i].rules]]],
         affected |-> SelectSeq([i \in 1..Len(v.sources) |->
                                   IF r[i].should_update THEN v.sources[i].id
                                   ELSE NoneId],
                                LAMBDA x : x # NoneId)]

\* criteria of the Vendor.find of step 3; the global scope has none
VendorsToUpdate(vs, vendor_id, source_id, tenant_id, scope) ==
    IF scope = "vendor"
    THEN IF vs[vendor_id].tenant_id = tenant_id THEN <<vendor_id>> ELSE <<>>
    ELSE IF scope = "source"
         THEN SetToSeq({v \in VendorsOfSource(vs, source_id) :
                          vs[v].tenant_id = tenant_id})
         ELSE SetToSeq(DOMAIN vs)

RECURSIVE ConcatAll(_)
ConcatAll(seqs) == IF seqs = <<>> THEN <<>> ELSE Head(seqs) \o ConcatAll(Tail(seqs))

\* step 0: the vendor of the source, by tenant and then by owner
CurrentVendor(vs, source_id, owner_id, tenant_id) ==
    LET by_tenant == {v \in VendorsOfSource(vs, source_id) : vs[v].tenant_id = tenant_id}
        by_owner == {v \in VendorsOfSource(vs, source_id) : vs[v].owner_id = owner_id}
    IN  IF by_tenant # {} THEN CHOOSE v \in by_tenant : TRUE
        ELSE IF by_owner # {} THEN CHOOSE v \in by_owner : TRUE
             ELSE NoneId

HasSystemField(sfs, field_key, tenant_id) ==
    \E i \in 1..Len(sfs) : sfs[i].field_key = field_key /\ sfs[i].tenant_id = tenant_id

\* step 2: the sources that have an UnknownField document for the field
SourceIdsWithField(ufs, source_id, field, tenant_id, scope) ==
    {ufs[i].source_id :
        i \in {j \in 1..Len(ufs) :
                 /\ ufs[j].field_name = field /\ ufs[j].tenant_id = tenant_id
                 /\ scope = "source" => ufs[j].source_id = source_id}}
    \cup {source_id}

\* the sources of the loaded vendors that have a null-target rule for the field
NullRuledSources(vs, to_update, field) ==
    UNION {{vs[to_update[n]].sources[i].id :
              i \in {j \in 1..Len(vs[to_update[n]].sources) :
                       \E k \in 1..Len(vs[to_update[n]].sources[j].mapping.rules) :
                          /\ vs[to_update[n]].sources[j].mapping.rules[k].source_field = field
                          /\ vs[to_update[n]].sources[j].mapping.rules[k].target_field = NoneVal}} :
           n \in 1..Len(to_update)}

\* steps 0 to 3, up to the first v.save(): the call raises ValueError, or holds
\* the documents it is going to save (nulls, the sources that had a null-target
\* rule when the vendors were read, is kept for observation only)
RemapLoaded(seq, source_id, field, target, scope, owner_id, tenant_id, vendor_id, sfs, vs, ufs) ==
    IF vendor_id = NoneId
    THEN [pc |-> "idle", seq |-> seq, status |-> "Source not found"]
    ELSE IF ~HasSystemField(sfs, target, tenant_id)
    THEN [pc |-> "idle", seq |-> seq, status |-> "System field does not exist"]
    ELSE LET ids == SourceIdsWithField(ufs, source_id, field, tenant_id, scope)
             to_update == VendorsToUpdate(vs, vendor_id, source_id, tenant_id, scope)
             r == [n \in 1..Len(to_update) |->
                     RemapVendor(vs[to_update[n]], source_id, ids, field, target, scope)]
         IN  [pc |-> "save", seq |-> seq,
              source_id |-> source_id, field |-> field, target |-> target,
              scope |-> scope, owner_id |-> owner_id, tenant_id |-> tenant_id,
              vendor_id |-> vendor_id,
              nulls |-> NullRuledSources(vs, to_update, field),
              docs |-> SelectSeq([n \in 1..Len(to_update) |->
                                    [id |-> to_update[n], doc |-> r[n].doc,
                                     updated |-> r[n].affected # <<>>]],
                                 LAMBDA x : x.updated),
              affected |-> ConcatAll([n \in 1..Len(to_update) |-> r[n].affected])]

\* the call of the endpoint, steps 0 to 3: with is_new_system_field the field
\* is inserted unless the tenant has it
RemapStart(source_id, field, target, scope, is_new_system_field) ==
    /\ tasks.remap.pc = "idle"
    /\ budget.api > 0
    /\ budget' = [budget EXCEPT !.api = @ - 1]
    /\ \E vendor_id \in {CurrentVendor(vendors, source_id, OwnerId, TenantId)} :
       \E sfs \in {IF vendor_id # NoneId /\ is_new_system_field
                      /\ ~HasSystemField(systemFields, target, TenantId)
                   THEN Append(systemFields,
                               [tenant_id |-> TenantId, owner_id |-> OwnerId,
                                field_key |-> target, aliases |-> <<>>])
                   ELSE systemFields} :
          /\ systemFields' = sfs
          /\ tasks' = [tasks EXCEPT !.remap =
                         RemapLoaded(tasks.remap.seq + 1, source_id, field, target,
                                     scope, OwnerId, TenantId, vendor_id, sfs,
                                     vendors, unknownFields)]
    /\ UNCHANGED <<vendors, unknownFields, leads, processQueue, routeQueue, now,
                   lastJob, customers, campaigns, destinations, router, httpLog,
                   lastApi>>

\* line 180: v.save() writes the whole document the call loaded
RemapSave ==
    /\ tasks.remap.pc = "save"
    /\ IF tasks.remap.docs = <<>>
       THEN /\ tasks' = [tasks EXCEPT !.remap.pc = "finish"]
            /\ UNCHANGED vendors
       ELSE /\ vendors' = [vendors EXCEPT ![Head(tasks.remap.docs).id] =
                                              Head(tasks.remap.docs).doc]
            /\ tasks' = [tasks EXCEPT !.remap.docs = Tail(@),
                                      !.remap.pc = IF Len(tasks.remap.docs) = 1
                                                   THEN "finish" ELSE "save"]
    /\ UNCHANGED <<systemFields, unknownFields, leads, processQueue, routeQueue,
                   now, lastJob, customers, campaigns, destinations, router,
                   httpLog, lastApi, budget>>

\* step 5: the scoped alias, unless the field has one with the same normalized
\* form and scope (and vendor, for the vendor scope)
AddAlias(sf, r) ==
    IF \E i \in 1..Len(sf.aliases) :
          /\ sf.aliases[i].alias_normalized = normalize_alias(r.field)
          /\ sf.aliases[i].scope = r.scope
          /\ r.scope = "vendor" => sf.aliases[i].vendor_id = r.vendor_id
    THEN sf
    ELSE [sf EXCEPT !.aliases =
            Append(@, [alias_raw |-> r.field,
                       alias_normalized |-> normalize_alias(r.field),
                       scope |-> r.scope, owner_id |-> r.owner_id,
                       vendor_id |-> IF r.scope = "vendor" THEN r.vendor_id ELSE NoneId,
                       source_id |-> IF r.scope = "source" THEN r.source_id ELSE NoneId])]

AliasAdded(sfs, r) ==
    LET i == FirstIndex({j \in 1..Len(sfs) : /\ sfs[j].field_key = r.target
                                             /\ sfs[j].tenant_id = r.tenant_id})
    IN  IF i = 0 THEN sfs ELSE [sfs EXCEPT ![i] = AddAlias(@, r)]

\* step 4: the delete of the UnknownField documents of the affected sources
UnknownDeleted(ufs, r) ==
    SelectSeq(ufs, LAMBDA uf : ~(/\ uf.field_name = r.field
                                 /\ uf.tenant_id = r.tenant_id
                                 /\ InSeq(uf.source_id, r.affected)))

\* steps 4 to 6: delete, alias, one reprocess message per affected source
RemapFinish ==
    /\ tasks.remap.pc = "finish"
    /\ unknownFields' = UnknownDeleted(unknownFields, tasks.remap)
    /\ systemFields' = AliasAdded(systemFields, tasks.remap)
    /\ tasks' = [tasks EXCEPT
                   !.remap = [pc |-> "idle", seq |-> tasks.remap.seq,
                              status |-> "success",
                              source_id |-> tasks.remap.source_id,
                              field |-> tasks.remap.field,
                              target |-> tasks.remap.target,
                              scope |-> tasks.remap.scope,
                              vendor_id |-> tasks.remap.vendor_id,
                              nulls |-> tasks.remap.nulls,
                              affected |-> tasks.remap.affected],
                   !.reprocessQueue = @ \o tasks.remap.affected]
    /\ UNCHANGED <<vendors, leads, processQueue, routeQueue, now, lastJob,
                   customers, campaigns, destinations, router, httpLog, lastApi,
                   budget>>

----------------------------------------------------------------------------
(* tasks/lead_tasks.py reprocess_source_leads_task *)

\* steps 1 and 2: the source, and the first batch of the cursor over the
\* source's leads (a batch holds up to 101 documents, so all of them here)
ReprocessStart(j) ==
    /\ tasks.reprocess.pc = "idle"
    /\ j \in 1..Len(tasks.reprocessQueue)
    /\ LET source_id == tasks.reprocessQueue[j]
           found == {v \in VendorsOfSource(vendors, source_id) :
                       vendors[v].tenant_id = TenantId}
           batch == SelectSeq(leads, LAMBDA l : /\ l.source_id = source_id
                                                /\ l.tenant_id = TenantId)
       IN  tasks' = [tasks EXCEPT
                       !.reprocessQueue = RemoveAt(@, j),
                       !.reprocess =
                           IF found = {} \/ batch = <<>> THEN [pc |-> "idle"]
                           ELSE LET v == CHOOSE x \in found : TRUE
                                IN  [pc |-> "run", vendor_id |-> v,
                                     source |-> vendors[v].sources[
                                                   SourceIndex(vendors[v], source_id)],
                                     batch |-> batch, i |-> 1]]
    /\ UNCHANGED <<systemFields, vendors, unknownFields, leads, processQueue,
                   routeQueue, now, lastJob, customers, campaigns, destinations,
                   router, httpLog, lastApi, budget>>

\* a loop that saves the lead with the data it had
Reprocessed_KeepData(lead, source, vendor_id, sfs, vs, ufs, t) == lead

\* a loop that also files the lead again, as an accepted record
Reprocessed_Accepted(lead, source, vendor_id, sfs, vs, ufs, t) ==
    [lead EXCEPT !.status = "processed", !.rejection_reason = NoneVal]

\* steps 3 to 5 on one lead of the batch: data recomputed from original_payload
Reprocessed(lead, source, vendor_id, sfs, vs, ufs, t) ==
    [lead EXCEPT !.data =
        RenameLanguage(
            apply_normalization(
                apply_mapping(lead.original_payload, source.mapping, source.id,
                              lead.owner_id, lead.tenant_id, vendor_id, FALSE,
                              sfs, vs, ufs, t).result,
                source.normalization))]

\* one iteration of the loop: apply_mapping leaves the stores as its call
\* with auto_discover=False leaves them, and lead.save() writes the whole
\* in-memory document
ReprocessLead ==
    /\ tasks.reprocess.pc = "run"
    /\ LET r == tasks.reprocess
           lead == r.batch[r.i]
       IN  /\ IF lead.original_payload = <<>>
              THEN UNCHANGED <<leads, vendors, unknownFields>>
              ELSE \E m \in {apply_mapping(lead.original_payload, r.source.mapping,
                                           r.source.id, lead.owner_id,
                                           lead.tenant_id, r.vendor_id, FALSE,
                                           systemFields, vendors, unknownFields,
                                           now)} :
                      /\ vendors' = m.vendors
                      /\ unknownFields' = m.unknown
                      /\ leads' = [leads EXCEPT ![lead.id] =
                                     Reprocessed(lead, r.source, r.vendor_id,
                                                 systemFields, vendors,
                                                 unknownFields, now)]
           /\ tasks' = [tasks EXCEPT !.reprocess =
                          IF r.i = Len(r.batch) THEN [pc |-> "idle"]
                          ELSE [r EXCEPT !.i = @ + 1]]
    /\ UNCHANGED <<systemFields, processQueue, routeQueue,
                   now, lastJob, customers, campaigns, destinations, router,
                   httpLog, lastApi, budget>>


----------------------------------------------------------------------------
(* Reprocessing against routing: source s1 sends the unregistered key x, an *)
(* administrator maps x to email, and the reprocessing this triggers runs   *)
(* while the leads of s1 are being routed to campaign 1.                    *)

ReprocessPayloads == { << <<F_x, <<"a">>>> >> }

InitReprocess ==
    InitWith(PlainVendors, <<EmailField>>, GateCustomers, GateCampaigns,
             GateDestinations)

NextReprocess ==
    \/ \E p \in ReprocessPayloads : Ingest("s1", p)
    \/ \E j \in 1..Len(processQueue) : ProcessLead(j)
    \/ \E j \in 1..Len(routeQueue) : RouteLead(j)
    \/ Deliver
    \/ \E scope \in {"vendor", "source"} : RemapStart("s1", F_x, K_email, scope, FALSE)
    \/ RemapSave
    \/ RemapFinish
    \/ \E j \in 1..Len(tasks.reprocessQueue) : ReprocessStart(j)
    \/ ReprocessLead

SpecReprocess == InitReprocess /\ [][NextReprocess]_vars

\* C12. routing_results is append-only: in every step, each stored lead keeps
\* the results it had, at the same positions and unchanged.
DeliveryResultsAppendOnly ==
    [][\A i \in 1..Len(leads) :
          IsPrefix(leads[i].routing_results, leads'[i].routing_results)]_vars


\* the step is one iteration of the reprocessing loop
ReprocessStep == tasks.reprocess.pc = "run" /\ tasks'.reprocess # tasks.reprocess

\* the data the statement gives a reprocessed record: its original payload
\* mapped and normalized under the rules of its source
ReprocessedData(lead) ==
    LET v == CHOOSE x \in VendorsOfSource(vendors, lead.source_id) : TRUE
        source == vendors[v].sources[SourceIndex(vendors[v], lead.source_id)]
    IN  RenameLanguage(
            apply_normalization(
                apply_mapping(lead.original_payload, source.mapping, source.id,
                              lead.owner_id, lead.tenant_id, v, FALSE,
                              systemFields, vendors, unknownFields, now).result,
                source.normalization))

\* what the stored record i keeps in the step
RecordFrame(i) ==
    /\ leads'[i].id = leads[i].id
    /\ leads'[i].source_id = leads[i].source_id
    /\ leads'[i].status = leads[i].status
    /\ leads'[i].rejection_reason = leads[i].rejection_reason
    /\ leads'[i].routing_results = leads[i].routing_results
    /\ leads'[i].original_payload = leads[i].original_payload

\* C27. Reprocessing frame: an iteration of the reprocessing loop replaces
\* the stored record's data by the mapping and normalization of its original
\* payload, keeps its id, source, status, rejection_reason, routing_results
\* and original_payload as stored, leaves a record without original payload
\* as it is, and touches no other record.
ReprocessingFrame ==
    [][ReprocessStep =>
          LET id == tasks.reprocess.batch[tasks.reprocess.i].id
          IN  /\ Len(leads') = Len(leads)
              /\ \A i \in 1..Len(leads) : i # id => leads'[i] = leads[i]
              /\ RecordFrame(id)
              /\ leads'[id].data = IF leads[id].original_payload = <<>>
                                   THEN leads[id].data
                                   ELSE ReprocessedData(leads[id])]_vars

----------------------------------------------------------------------------
(* process_lead_task run by concurrent workers: one step per database       *)
(* operation of apply_mapping's auto-discovery loop                         *)

\* what the loop body decides for a key before it awaits anything
KeyPlan(mapped, key, sfs, source_id, owner_id, tenant_id, vendor_id) ==
    IF key \in system_field_keys(sfs, tenant_id)
    THEN [write |-> TRUE, target |-> key, persist |-> key \notin mapped,
          unknown |-> FALSE]
    ELSE IF key \in mapped
    THEN [write |-> FALSE, target |-> NoneVal, persist |-> FALSE, unknown |-> FALSE]
    ELSE LET t == ResolveAlias(alias_map_get(sfs, tenant_id, normalize_alias(key)),
                               source_id, vendor_id, owner_id)
         IN  [write |-> Truthy(t), target |-> t, persist |-> TRUE,
              unknown |-> ~Truthy(t)]

\* the worker moves on to the next key, or to the rules loop after the last
NextKey(p) ==
    [p EXCEPT !.pc = IF p.i >= Len(p.job.payload) THEN "rules" ELSE "key",
              !.i = @ + 1]

AfterPersist(p) == IF p.unknown THEN [p EXCEPT !.pc = "track"] ELSE NextKey(p)

\* process_lead_task step 1 and the reads at the start of apply_mapping; prior
\* (the leads stored when the job starts) is kept for observation only
WorkerStart(w, j) ==
    /\ tasks.process[w].pc = "idle"
    /\ j \in 1..Len(processQueue)
    /\ processQueue' = RemoveAt(processQueue, j)
    /\ LET job == processQueue[j]
       IN  IF job.vendor_id \notin DOMAIN vendors
              \/ SourceIndex(vendors[job.vendor_id], job.source_id) = 0
           THEN /\ lastJob' = [kind |-> "skipped"]
                /\ UNCHANGED tasks
           ELSE LET vendor == vendors[job.vendor_id]
                    source == vendor.sources[SourceIndex(vendor, job.source_id)]
                IN  /\ tasks' = [tasks EXCEPT !.process[w] =
                           [pc |-> IF job.payload = <<>> THEN "rules" ELSE "key",
                            job |-> job, source |-> source, sfs |-> systemFields,
                            prior |-> leads,
                            result |-> EmptyDict, writes |-> <<>>,
                            mapped |-> {source.mapping.rules[i].source_field :
                                          i \in 1..Len(source.mapping.rules)},
                            i |-> 1, unknown |-> FALSE,
                            doc_id |-> NoneId, doc |-> NoneVal, uf |-> NoneVal,
                            checked |-> <<>>, dupe_error |-> NoneVal]]
                    /\ UNCHANGED lastJob
    /\ UNCHANGED <<systemFields, vendors, unknownFields, leads, routeQueue, now,
                   customers, campaigns, destinations, router, httpLog, lastApi,
                   budget>>

\* the loop body on payload[i] up to the find_one of persist_rule: the vendor
\* document it read, with the rule appended, is held for the save
KeyStep(p, plan, key, value, vs) ==
    LET q == [p EXCEPT
                !.result = IF plan.write THEN DictPut(@, plan.target, value) ELSE @,
                !.writes = IF plan.write THEN Append(@, <<key, plan.target, value>>)
                           ELSE @,
                !.mapped = IF plan.persist THEN @ \cup {key} ELSE @,
                !.unknown = plan.unknown]
        found == {v \in VendorsOfSource(vs, p.job.source_id) :
                    vs[v].owner_id = p.job.owner_id}
    IN  IF ~plan.persist THEN NextKey(q)
        ELSE IF found = {} THEN AfterPersist(q)
        ELSE LET v == CHOOSE x \in found : TRUE
                 doc == persist_rule(vs, p.job.source_id, key,
                                     plan.target, p.job.owner_id)[v]
             IN  IF doc = vs[v] THEN AfterPersist(q)
                 ELSE [q EXCEPT !.pc = "persist", !.doc_id = v, !.doc = doc]

WorkerKey(w) ==
    /\ tasks.process[w].pc = "key"
    /\ LET p == tasks.process[w]
           key == p.job.payload[p.i][1]
       IN  tasks' = [tasks EXCEPT !.process[w] =
                       KeyStep(p, KeyPlan(p.mapped, key, p.sfs, p.job.source_id,
                                          p.job.owner_id, p.job.tenant_id,
                                          p.job.vendor_id),
                               key, p.job.payload[p.i][2], vendors)]
    /\ UNCHANGED <<systemFields, vendors, unknownFields, leads, processQueue,
                   routeQueue, now, lastJob, customers, campaigns, destinations,
                   router, httpLog, lastApi, budget>>

\* persist_rule: vendor_doc.save() writes the whole document read before
WorkerPersist(w) ==
    /\ tasks.process[w].pc = "persist"
    /\ vendors' = [vendors EXCEPT ![tasks.process[w].doc_id] = tasks.process[w].doc]
    /\ tasks' = [tasks EXCEPT !.process[w] = AfterPersist(@)]
    /\ UNCHANGED <<systemFields, unknownFields, leads, processQueue, routeQueue,
                   now, lastJob, customers, campaigns, destinations, router,
                   httpLog, lastApi, budget>>

\* the _ids of the UnknownField documents the workers hold in memory
HeldUnknownIds ==
    {tasks.process[w].uf.id : w \in {x \in DOMAIN tasks.process :
                                       tasks.process[x].pc = "track_save"}}

\* track_unknown_field up to its write: the find_one, and the document it is
\* going to save (the one found, updated) or insert (a new one)
TrackFound(p, ufs, i, sample_str, held, t) ==
    IF i # 0 /\ ufs[i].status = "ignored" THEN NextKey(p)
    ELSE [p EXCEPT
            !.pc = "track_save",
            !.uf = IF i # 0
                   THEN TrackAt(<<ufs[i]>>, 1, p.job.source_id,
                                p.job.payload[p.i][1], sample_str,
                                p.job.owner_id, p.job.tenant_id, t)[1]
                   ELSE [TrackAt(<<>>, 0, p.job.source_id,
                                 p.job.payload[p.i][1], sample_str,
                                 p.job.owner_id, p.job.tenant_id, t)[1]
                         EXCEPT !.id = FreshUnknownId(ufs, held)]]

WorkerTrack(w) ==
    /\ tasks.process[w].pc = "track"
    /\ LET p == tasks.process[w]
           value == p.job.payload[p.i][2]
       IN  tasks' = [tasks EXCEPT !.process[w] =
                       TrackFound(p, unknownFields,
                                  FirstIndex({i \in 1..Len(unknownFields) :
                                     /\ unknownFields[i].field_name = p.job.payload[p.i][1]
                                     /\ unknownFields[i].tenant_id = p.job.tenant_id}),
                                  IF value # NoneVal THEN Str(value) ELSE NoneVal,
                                  HeldUnknownIds, now)]
    /\ UNCHANGED <<systemFields, vendors, unknownFields, leads, processQueue,
                   routeQueue, now, lastJob, customers, campaigns, destinations,
                   router, httpLog, lastApi, budget>>

\* existing.save() / unknown_field.insert(): the document is written by _id
SaveUnknown(ufs, uf) ==
    IF \E i \in 1..Len(ufs) : ufs[i].id = uf.id
    THEN [i \in 1..Len(ufs) |-> IF ufs[i].id = uf.id THEN uf ELSE ufs[i]]
    ELSE Append(ufs, uf)

WorkerTrackSave(w) ==
    /\ tasks.process[w].pc = "track_save"
    /\ unknownFields' = SaveUnknown(unknownFields, tasks.process[w].uf)
    /\ tasks' = [tasks EXCEPT !.process[w] = NextKey(@)]
    /\ UNCHANGED <<systemFields, vendors, leads, processQueue, routeQueue, now,
                   lastJob, customers, campaigns, destinations, router, httpLog,
                   lastApi, budget>>

\* the rules loop of apply_mapping and the rest of process_record, then steps
\* 3 and 4 of process_lead_task
WorkerFinish(w) ==
    /\ tasks.process[w].pc = "rules"
    /\ LET p == tasks.process[w]
       IN  \E r \in {RecordMapped(p.job.payload, p.source, p.job.owner_id,
                                  p.job.tenant_id, p.job.vendor_id, leads, now,
                                  [result |-> ApplyRules(p.result,
                                                 p.source.mapping.rules, 1,
                                                 p.job.payload,
                                                 NormalizedPayload(p.job.payload, 1,
                                                                   EmptyDict)),
                                   writes |-> p.writes, vendors |-> vendors,
                                   unknown |-> unknownFields])} :
              /\ leads' = r.leads
              /\ processQueue' = processQueue \o r.redirects
              /\ routeQueue' = IF ~r.raised /\ ~r.rejected
                               THEN Append(routeQueue, r.lead_id) ELSE routeQueue
              /\ lastJob' = [kind |-> "process", payload |-> p.job.payload,
                             source |-> p.source, vendor_id |-> p.job.vendor_id,
                             owner_id |-> p.job.owner_id, fields |-> p.sfs,
                             prior |-> leads, at |-> now, raised |-> r.raised,
                             dupe_error |-> r.dupe_error, writes |-> r.writes,
                             lead_id |-> r.lead_id]
    /\ tasks' = [tasks EXCEPT !.process[w] = [pc |-> "idle"]]
    /\ UNCHANGED <<systemFields, vendors, unknownFields, now, customers, campaigns,
                   destinations, router, httpLog, lastApi, budget>>

\* the same in two steps. First the rules loop of apply_mapping,
\* apply_normalization and check_duplicate (line 25): the verdict of the
\* find_one on the leads stored now is held in memory
WorkerCheck(w) ==
    /\ tasks.process[w].pc = "rules"
    /\ LET p == tasks.process[w]
           data == apply_normalization(
                       ApplyRules(p.result, p.source.mapping.rules, 1,
                                  p.job.payload,
                                  NormalizedPayload(p.job.payload, 1, EmptyDict)),
                       p.source.normalization)
       IN  tasks' = [tasks EXCEPT !.process[w] =
                       [p EXCEPT !.pc = "insert",
                                 !.result = data,
                                 !.checked = leads,
                                 !.dupe_error =
                                     check_duplicate(data, p.source, leads, now)]]
    /\ UNCHANGED <<systemFields, vendors, unknownFields, leads, processQueue,
                   routeQueue, now, lastJob, customers, campaigns, destinations,
                   router, httpLog, lastApi, budget>>

\* ... then lines 26 to 105 with the verdict held, lead_doc.insert() on the
\* leads stored now, and steps 3 and 4 of process_lead_task
WorkerInsert(w) ==
    /\ tasks.process[w].pc = "insert"
    /\ LET p == tasks.process[w]
       IN  \E r \in {RecordChecked(p.job.payload, p.source, p.job.owner_id,
                                   p.job.tenant_id, p.job.vendor_id, leads, now,
                                   [result |-> p.result, writes |-> p.writes,
                                    vendors |-> vendors, unknown |-> unknownFields],
                                   p.result, p.dupe_error,
                                   evaluate_rules(p.result, p.source.rules))} :
              /\ leads' = r.leads
              /\ processQueue' = processQueue \o r.redirects
              /\ routeQueue' = IF ~r.raised /\ ~r.rejected
                               THEN Append(routeQueue, r.lead_id) ELSE routeQueue
              /\ lastJob' = [kind |-> "process", payload |-> p.job.payload,
                             source |-> p.source, vendor_id |-> p.job.vendor_id,
                             owner_id |-> p.job.owner_id, fields |-> p.sfs,
                             prior |-> p.checked, at |-> now, raised |-> r.raised,
                             dupe_error |-> r.dupe_error, writes |-> r.writes,
                             lead_id |-> r.lead_id]
    /\ tasks' = [tasks EXCEPT !.process[w] = [pc |-> "idle"]]
    /\ UNCHANGED <<systemFields, vendors, unknownFields, now, customers, campaigns,
                   destinations, router, httpLog, lastApi, budget>>


----------------------------------------------------------------------------
(* Concurrent processing: two workers take the jobs of source s1 (the same  *)
(* payload may be sent twice), while an administrator maps the unregistered *)
(* key x of s1 to email.                                                    *)

MaxRemap == 1

WorkerPayloads ==
    { << <<F_x, <<"a">>>> >>, << <<F_x, <<"a">>>>, <<F_y, <<"b">>>> >> }

InitWorkers == InitWith(PlainVendors, <<EmailField>>, <<>>, <<>>, <<>>)

NextWorkers ==
    \/ \E p \in WorkerPayloads : Ingest("s1", p)
    \/ \E w \in DOMAIN tasks.process :
          \/ \E j \in 1..Len(processQueue) : WorkerStart(w, j)
          \/ WorkerKey(w)
          \/ WorkerPersist(w)
          \/ WorkerTrack(w)
          \/ WorkerTrackSave(w)
          \/ WorkerFinish(w)
    \/ /\ tasks.remap.seq < MaxRemap
       /\ \E scope \in {"vendor", "source"} :
             RemapStart("s1", F_x, K_email, scope, FALSE)
    \/ RemapSave
    \/ RemapFinish

SpecWorkers == InitWorkers /\ [][NextWorkers]_vars

\* the rules of the stored source s_id that have the given source_field
RulesFor(s_id, source_field) ==
    {<<v, i>> \in UNION {{v} \X (1..Len(vendors[v].sources[SourceIndex(vendors[v], s_id)].mapping.rules)) :
                             v \in VendorsOfSource(vendors, s_id)} :
        vendors[v].sources[SourceIndex(vendors[v], s_id)].mapping.rules[i].source_field
            = source_field}

\* every stored source has at most one rule per source_field
RuleUnique ==
    \A s_id \in {"s1", "s2", "s3"} : \A f \in {F_x, F_y, K_email} :
        Cardinality(RulesFor(s_id, f)) <= 1

\* the key the worker is at
KeyOf(p) == p.job.payload[p.i][1]

\* a worker saves a vendor document only for a key that had no rule in the
\* source it loaded when the job started, and the document it saves has
\* exactly one rule for that key
PersistOnlyUnruled ==
    \A w \in DOMAIN tasks.process :
        tasks.process[w].pc = "persist" =>
            LET p == tasks.process[w]
                rules == p.doc.sources[SourceIndex(p.doc, p.job.source_id)].mapping.rules
            IN  /\ \A i \in 1..Len(p.source.mapping.rules) :
                      p.source.mapping.rules[i].source_field # KeyOf(p)
                /\ Cardinality({i \in 1..Len(rules) :
                                  rules[i].source_field = KeyOf(p)}) = 1

ProcessedBefore(w) ==
    \E i \in 1..Len(tasks.process[w].prior) :
        /\ tasks.process[w].prior[i].source_id = tasks.process[w].job.source_id
        /\ tasks.process[w].prior[i].original_payload = tasks.process[w].job.payload

UnknownFieldUnique ==
    \A i, j \in 1..Len(unknownFields) :
        (/\ unknownFields[i].tenant_id = unknownFields[j].tenant_id
         /\ unknownFields[i].field_name = unknownFields[j].field_name) => i = j


----------------------------------------------------------------------------
(* Unknown fields, sequentially: the sources of vendor v1 (s1, s2) and of   *)
(* vendor v2 (s3) send payloads with the unregistered key x, one job at a   *)
(* time; an administrator maps x of s1 to email; the reprocessing this      *)
(* triggers runs as well.                                                   *)

UnseenPayloads ==
    { << <<F_x, <<"a">>>> >>, << <<F_x, <<"b">>>>, <<K_email, <<"c">>>> >> }

InitUnseen == InitWith(PlainVendors, <<EmailField>>, <<>>, <<>>, <<>>)

NextUnseen ==
    \/ \E s \in {"s1", "s2", "s3"} : \E p \in UnseenPayloads : Ingest(s, p)
    \/ \E j \in 1..Len(processQueue) : ProcessLead(j)
    \/ Tick(24)
    \/ \E scope \in {"vendor", "source"} : RemapStart("s1", F_x, K_email, scope, FALSE)
    \/ RemapSave
    \/ RemapFinish
    \/ \E j \in 1..Len(tasks.reprocessQueue) : ReprocessStart(j)
    \/ ReprocessLead

SpecUnseen == InitUnseen /\ [][NextUnseen]_vars


\* the stored source s_id
SourceOf(vs, s_id) ==
    LET v == CHOOSE x \in VendorsOfSource(vs, s_id) : TRUE
    IN  vs[v].sources[SourceIndex(vs[v], s_id)]

VendorOf(vs, s_id) == CHOOSE x \in VendorsOfSource(vs, s_id) : TRUE

\* the rules of the stored source s_id for the key
RulesOf(vs, s_id, key) ==
    SelectSeq(SourceOf(vs, s_id).mapping.rules, LAMBDA r : r.source_field = key)

\* the key is no system field key and matches no alias at any scope for s_id
NoTarget(sfs, vs, s_id, key) ==
    /\ key \notin system_field_keys(sfs, TenantId)
    /\ ~Truthy(ResolveAlias(alias_map_get(sfs, TenantId, normalize_alias(key)),
                            s_id, VendorOf(vs, s_id), OwnerId))

\* ... and s_id has no rule for it
Unmatched(sfs, vs, s_id, key) ==
    NoTarget(sfs, vs, s_id, key) /\ RulesOf(vs, s_id, key) = <<>>

\* the UnknownField documents of the tenant for the key
EntriesOf(ufs, key) ==
    SelectSeq(ufs, LAMBDA uf : uf.field_name = key /\ uf.tenant_id = TenantId)

\* what every first sighting does: the null-target rule, and no write of the key
SightingRecorded(s_id, key, lead, vs) ==
    /\ Len(RulesOf(vs, s_id, key)) = 1
    /\ RulesOf(vs, s_id, key)[1].target_field = NoneVal
    /\ key \notin DOMAIN lead.data

\* a new UnknownField document for the key and the source, as the last one
EntryCreated(ufs_before, ufs, s_id, key) ==
    /\ Len(ufs) = Len(ufs_before) + 1
    /\ ufs[Len(ufs)].field_name = key
    /\ ufs[Len(ufs)].source_id = s_id
    /\ ufs[Len(ufs)].detected_count = 1
    /\ ufs[Len(ufs)].status = "unmapped"

\* C15 (as stated). First sighting: the job that stores a lead of source S
\* whose payload has a key that is no system field key, has no rule on S and
\* matches no alias, persists a null-target rule for (S, key), creates an
\* UnknownField with detected_count 1 and status unmapped, and does not write
\* the key into data.
FirstSightingCreates ==
    [][Len(leads') = Len(leads) + 1 =>
         LET lead == leads'[Len(leads')]
         IN  (/\ F_x \in PayloadKeys(lead.original_payload)
              /\ Unmatched(systemFields, vendors, lead.source_id, F_x))
             => /\ SightingRecorded(lead.source_id, F_x, lead, vendors')
                /\ EntryCreated(unknownFields, unknownFields', lead.source_id, F_x)]_vars

\* C15 (as amended). The same, with the UnknownField created when the tenant
\* has none for the field name, and otherwise the tenant's first document for
\* the field name (of whichever source) counted up by one and none created.
FirstSighting ==
    [][Len(leads') = Len(leads) + 1 =>
         LET lead == leads'[Len(leads')]
         IN  (/\ F_x \in PayloadKeys(lead.original_payload)
              /\ Unmatched(systemFields, vendors, lead.source_id, F_x))
             => /\ SightingRecorded(lead.source_id, F_x, lead, vendors')
                /\ IF EntriesOf(unknownFields, F_x) = <<>>
                   THEN EntryCreated(unknownFields, unknownFields', lead.source_id, F_x)
                   ELSE /\ Len(unknownFields') = Len(unknownFields)
                        /\ EntriesOf(unknownFields', F_x)[1].detected_count
                              = EntriesOf(unknownFields, F_x)[1].detected_count + 1
                        /\ EntriesOf(unknownFields', F_x)[1].source_id
                              = EntriesOf(unknownFields, F_x)[1].source_id]_vars

\* the last job was a first sighting of x by its source: the document it
\* created is the last one, and the stored lead has no x
FirstSightingWitness ==
    /\ lastJob.kind = "process"
    /\ lastJob.lead_id = Len(leads)
    /\ F_x \in PayloadKeys(lastJob.payload)
    /\ RulesOf(<<[sources |-> <<lastJob.source>>]>>, lastJob.source.id, F_x) = <<>>
    /\ unknownFields # <<>>
    /\ unknownFields[Len(unknownFields)].source_id = lastJob.source.id
    /\ unknownFields[Len(unknownFields)].detected_count = 1
    /\ unknownFields[Len(unknownFields)].first_seen = lastJob.at
    /\ SightingRecorded(lastJob.source.id, F_x, leads[Len(leads)], vendors)


\* the source has an UnknownField document for the key that is still unmapped:
\* status unmapped, and no rule of the source gives the key a target
StaysUnmapped(ufs, sfs, vs, s_id, key) ==
    /\ NoTarget(sfs, vs, s_id, key)
    /\ \A i \in 1..Len(RulesOf(vs, s_id, key)) :
          RulesOf(vs, s_id, key)[i].target_field = NoneVal
    /\ EntriesOf(ufs, key) # <<>>
    /\ EntriesOf(ufs, key)[1].source_id = s_id
    /\ EntriesOf(ufs, key)[1].status = "unmapped"

\* C16. Repeat sightings: while the field stays unmapped, each further job
\* that stores a lead of the same source whose payload has the key counts the
\* UnknownField document up by one and sets last_seen to the time of the job.
RepeatSightingCounts ==
    [][Len(leads') = Len(leads) + 1 =>
         LET lead == leads'[Len(leads')]
         IN  (/\ F_x \in PayloadKeys(lead.original_payload)
              /\ StaysUnmapped(unknownFields, systemFields, vendors,
                               lead.source_id, F_x))
             => /\ EntriesOf(unknownFields', F_x)[1].detected_count
                      = EntriesOf(unknownFields, F_x)[1].detected_count + 1
                /\ EntriesOf(unknownFields', F_x)[1].last_seen = now]_vars


\* the last call of map_unknown_field has returned success with scope vendor
VendorRemapDone ==
    /\ tasks.remap.seq > 0
    /\ tasks.remap.pc = "idle"
    /\ tasks.remap.status = "success"
    /\ tasks.remap.scope = "vendor"

\* no UnknownField document for the remapped field belongs to an affected source
AffectedEntriesGone ==
    VendorRemapDone =>
        \A i \in 1..Len(unknownFields) :
            (/\ unknownFields[i].field_name = tasks.remap.field
             /\ unknownFields[i].tenant_id = TenantId)
            => ~InSeq(unknownFields[i].source_id, tasks.remap.affected)

\* a job that stores a lead of the remapped vendor whose payload has the field
\* writes the field's value under the target and leaves the UnknownField
\* documents of the field as they are
LaterPayloadMapped ==
    (VendorRemapDone /\ Len(leads') = Len(leads) + 1) =>
        LET lead == leads'[Len(leads')]
        IN  (/\ lead.source_id \in {vendors[tasks.remap.vendor_id].sources[i].id :
                                      i \in 1..Len(vendors[tasks.remap.vendor_id].sources)}
             /\ tasks.remap.field \in PayloadKeys(lead.original_payload))
            => /\ DictGet(lead.data, tasks.remap.target)
                     = PayloadGet(lead.original_payload, tasks.remap.field)
               /\ EntriesOf(unknownFields', tasks.remap.field)
                     = EntriesOf(unknownFields, tasks.remap.field)

OtherKeyTo(payload, f, t, s_id) ==
    \E k \in PayloadKeys(payload) \ {f} :
        \/ k = t
        \/ \E i \in 1..Len(RulesOf(vendors, s_id, k)) :
              RulesOf(vendors, s_id, k)[i].target_field = t
        \/ ResolveAlias(alias_map_get(systemFields, TenantId, normalize_alias(k)),
                        s_id, VendorOf(vendors, s_id), OwnerId) = t

\* the source has a null-target rule for the key
NullRuled(vs, s_id, key) ==
    \E i \in 1..Len(RulesOf(vs, s_id, key)) :
        RulesOf(vs, s_id, key)[i].target_field = NoneVal

LaterPayloadMappedAlone ==
    (VendorRemapDone /\ Len(leads') = Len(leads) + 1) =>
        LET lead == leads'[Len(leads')]
        IN  (/\ lead.source_id \in {vendors[tasks.remap.vendor_id].sources[i].id :
                                      i \in 1..Len(vendors[tasks.remap.vendor_id].sources)}
             /\ tasks.remap.field \in PayloadKeys(lead.original_payload)
             /\ ~NullRuled(vendors, lead.source_id, tasks.remap.field))
            => /\ ~OtherKeyTo(lead.original_payload, tasks.remap.field,
                              tasks.remap.target, lead.source_id)
                  => DictGet(lead.data, tasks.remap.target)
                        = PayloadGet(lead.original_payload, tasks.remap.field)
               /\ tasks.remap.target \in DOMAIN lead.data
               /\ tasks.remap.field \notin DOMAIN lead.data
               /\ EntriesOf(unknownFields', tasks.remap.field)
                     = EntriesOf(unknownFields, tasks.remap.field)

\* the starting source, and every source of the vendor that had a null-target
\* rule for the field when the call read the vendor, has the one rule f -> t
NullRulesMapped ==
    VendorRemapDone =>
        \A s_id \in tasks.remap.nulls \cup {tasks.remap.source_id} :
            /\ Len(RulesOf(vendors, s_id, tasks.remap.field)) = 1
            /\ RulesOf(vendors, s_id, tasks.remap.field)[1].target_field
                  = tasks.remap.target

----------------------------------------------------------------------------
(* The rule evaluator on its own: a data map with the field n, and a rule   *)
(* tree over n, evaluated once.                                             *)

K_n == <<"n">>

\* data maps: n missing, None, empty, numerals (signed, with a blank), words
EvalData ==
    {EmptyDict} \cup
    {DictPut(EmptyDict, K_n, v) :
        v \in {NoneVal, <<>>, <<"5">>, <<"1", "2">>, <<"-", "3">>, <<" ", "7">>,
               <<"x">>, <<"a", "a", "b">>}}

EvalOps == {"eq", "neq", "gt", "lt", "gte", "lte", "in", "nin", "contains", "regex"}

\* operands: numerals, words, patterns (valid and invalid), lists
EvalConditions ==
    {Cond(K_n, op, v) :
        op \in EvalOps,
        v \in {<<"5">>, <<"x">>, <<>>, <<".">>, <<"a", "*", "b">>, <<"*", "a">>,
               <<"a", "*", "*">>, <<"(">>}}

EvalListConditions ==
    {[Cond(K_n, op, l) EXCEPT !.is_list = TRUE] :
        op \in EvalOps, l \in {<<>>, << <<"5">> >>, << <<"a">>, <<"x">> >>}}

\* the conditions used inside nested groups
NestedConditions ==
    {Cond(K_n, "gt", <<"5">>), Cond(K_n, "lte", <<"x">>), Cond(K_n, "eq", <<"x">>),
     Cond(K_n, "regex", <<"*", "a">>), Cond(K_n, "regex", <<"a", "*", "b">>)}

EvalTrees ==
    {Group(logic, <<>>) : logic \in {"and", "or"}}
    \cup {Group("and", <<c>>) : c \in EvalConditions}
    \cup {Group(l1, <<c1, Group(l2, <<c2, c3>>)>>) :
            l1 \in {"and", "or"}, l2 \in {"and", "or"},
            c1 \in NestedConditions, c2 \in NestedConditions,
            c3 \in {Cond(K_n, "neq", <<"5">>)}}

EvalListTrees == {Group("and", <<c>>) : c \in EvalListConditions}

InitEval ==
    /\ \E d \in EvalData :
          \/ \E tree \in EvalTrees :
                lastJob = [kind |-> "rules", payload |-> d, filtering |-> tree,
                           outcome |-> "pending"]
          \/ \E tree \in EvalListTrees :
                lastJob = [kind |-> "rules", payload |-> d, filtering |-> tree,
                           outcome |-> "pending"]
    /\ systemFields = <<>>
    /\ vendors = PlainVendors
    /\ unknownFields = <<>>
    /\ leads = <<>>
    /\ processQueue = <<>>
    /\ routeQueue = <<>>
    /\ now = 0
    /\ customers = <<>>
    /\ campaigns = <<>>
    /\ destinations = <<>>
    /\ router = IdleRouter
    /\ httpLog = <<>>
    /\ lastApi = NoApi
    /\ tasks = IdleTasks
    /\ budget = [ingest |-> 0, ticks |-> 0, admin |-> 0, api |-> 0]

\* evaluate_rules(payload, rules) is called
Evaluate ==
    /\ lastJob.kind = "rules"
    /\ lastJob.outcome = "pending"
    /\ lastJob' = [lastJob EXCEPT !.outcome =
                      RulesOutcome(lastJob.payload, [filtering |-> lastJob.filtering])]
    /\ UNCHANGED <<systemFields, vendors, unknownFields, leads, processQueue,
                   routeQueue, now, budget>>
    /\ UNCHANGED routeVars

SpecEval == InitEval /\ [][Evaluate]_vars

\* the conditions of a rule tree
RECURSIVE Leaves(_)
Leaves(group) ==
    UNION {IF group.conditions[i].kind = "group" THEN Leaves(group.conditions[i])
           ELSE {group.conditions[i]} : i \in 1..Len(group.conditions)}

\* C18. Rule evaluator totality: the evaluation of every rule tree on every
\* data map returns a boolean and raises nothing; a gt / lt / gte / lte
\* condition whose field value or operand is missing or no numeral is false,
\* and a regex condition with an invalid pattern is false.
EvaluatorTotal ==
    (lastJob.kind = "rules" /\ lastJob.outcome # "pending") =>
        /\ lastJob.outcome \in {"true", "false"}
        /\ lastJob.outcome = "true"
              <=> evaluate_rules(lastJob.payload, [filtering |-> lastJob.filtering])
        /\ \A c \in Leaves(lastJob.filtering) :
              /\ ConditionOutcome(lastJob.payload, c) \in {"true", "false"}
              /\ Raises(c.op, c.is_list, DictGet(lastJob.payload, c.field), c.value)
                    => ConditionOutcome(lastJob.payload, c) = "false"

\* a tree with an invalid pattern and one with a comparison of a missing value
\* have been evaluated
EvaluatorTotalWitness ==
    /\ lastJob.kind = "rules"
    /\ lastJob.outcome = "false"
    /\ \E c \in Leaves(lastJob.filtering) :
          /\ c.op = "regex" /\ ~c.is_list /\ ~RegexValid(c.value)
    /\ \E c \in Leaves(lastJob.filtering) :
          /\ c.op = "gt" /\ DictGet(lastJob.payload, c.field) = NoneVal


----------------------------------------------------------------------------
(* Normalization on its own: a data map with the fields f and g, and a list *)
(* of up to MaxRules rules, applied twice.                                  *)

MaxRules == 2

K_f == <<"f">>
K_g == <<"g">>

NormValues == {NoneVal, <<>>, <<"a", "B">>, <<"A", "B">>, <<"a", "b">>, <<"x", "1">>}

NormData ==
    {EmptyDict} \cup {DictPut(EmptyDict, K_f, v) : v \in NormValues}
    \cup {DictPut(DictPut(EmptyDict, K_f, v), K_g, w) : v \in NormValues, w \in NormValues}

NormRule == [field : {K_f, K_g}, operation : {"lowercase", "uppercase"}]

NormRuleLists == UNION {[1..n -> NormRule] : n \in 0..MaxRules}

InitNormalize ==
    /\ \E d \in NormData : \E rules \in NormRuleLists :
          lastJob = [kind |-> "normalize", input |-> d, rules |-> rules,
                     data |-> d, first |-> d, passes |-> 0]
    /\ systemFields = <<>>
    /\ vendors = PlainVendors
    /\ unknownFields = <<>>
    /\ leads = <<>>
    /\ processQueue = <<>>
    /\ routeQueue = <<>>
    /\ now = 0
    /\ customers = <<>>
    /\ campaigns = <<>>
    /\ destinations = <<>>
    /\ router = IdleRouter
    /\ httpLog = <<>>
    /\ lastApi = NoApi
    /\ tasks = IdleTasks
    /\ budget = [ingest |-> 0, ticks |-> 0, admin |-> 0, api |-> 0]

\* apply_normalization is called on the data as the last call left it
Normalize ==
    /\ lastJob.kind = "normalize"
    /\ lastJob.passes < 2
    /\ \E r \in {apply_normalization(lastJob.data, [rules |-> lastJob.rules])} :
          lastJob' = [lastJob EXCEPT !.data = r,
                                     !.first = IF lastJob.passes = 0 THEN r ELSE @,
                                     !.passes = @ + 1]
    /\ UNCHANGED <<systemFields, vendors, unknownFields, leads, processQueue,
                   routeQueue, now, budget>>
    /\ UNCHANGED routeVars

SpecNormalize == InitNormalize /\ [][Normalize]_vars

\* the fields a rule of the list names
NamedFields(rules) == {rules[i].field : i \in 1..Len(rules)}

\* C19. Normalization is idempotent: the second application of a rule list
\* leaves the data as the first one left it; an application keeps the set of
\* fields and the values of the fields no rule names.
NormalizationIdempotent ==
    lastJob.kind = "normalize" =>
        /\ lastJob.passes = 2 => lastJob.data = lastJob.first
        /\ DOMAIN lastJob.data = DOMAIN lastJob.input
        /\ \A k \in DOMAIN lastJob.input \ NamedFields(lastJob.rules) :
              lastJob.data[k] = lastJob.input[k]

\* two passes of a list that first lowers and then raises f were made on a
\* map in which f had both cases and g, named by no rule, had a value
NormalizationIdempotentWitness ==
    /\ lastJob.kind = "normalize"
    /\ lastJob.passes = 2
    /\ Len(lastJob.rules) = 2
    /\ lastJob.rules[1] = [field |-> K_f, operation |-> "lowercase"]
    /\ lastJob.rules[2] = [field |-> K_f, operation |-> "uppercase"]
    /\ lastJob.input = DictPut(DictPut(EmptyDict, K_f, <<"a", "B">>), K_g, <<"a", "B">>)
    /\ lastJob.data # lastJob.input

----------------------------------------------------------------------------
(* Duplicate redirect: sources s1 and s2 both check duplicates on email and *)
(* already hold the unmapped rule for the _redirect_history key; clients    *)
(* may send payloads that carry a redirect history of their own.            *)

RedirectSource(id) ==
    [Source(id, SourceConfig(TRUE, 0, <<K_email>>, "or"), <<>>, NoFilter)
        EXCEPT !.mapping.rules = <<MappingRule(K_redirect_history, NoneVal)>>]

RedirectVendors ==
    [v \in {"v1", "v2"} |->
        IF v = "v1"
        THEN Vendor(<<RedirectSource("s1"), RedirectSource("s2")>>)
        ELSE Vendor(<<Source("s3", NoDedupe, <<>>, NoFilter)>>)]

RedirectPayloads ==
    { << <<K_email, <<"a">>>> >>,
      << <<K_email, <<"a">>>>, <<K_redirect_history, <<"s1">>>> >>,
      << <<K_email, <<"a">>>>, <<K_redirect_history, <<"s2">>>> >>,
      << <<K_email, <<"a">>>>, <<K_redirect_history, <<"s2", "s1">>>> >> }

InitRedirect == InitWith(RedirectVendors, <<EmailField>>, <<>>, <<>>, <<>>)

NextRedirect ==
    \/ \E s \in {"s1", "s2"} : \E p \in RedirectPayloads : Ingest(s, p)
    \/ \E j \in 1..Len(processQueue) : ProcessLead(j)

SpecRedirect == InitRedirect /\ [][NextRedirect]_vars

\* the redirect history a payload carries
RedirectHistory(payload) ==
    IF K_redirect_history \in PayloadKeys(payload)
    THEN PayloadGet(payload, K_redirect_history) ELSE <<>>

NoRepeat(seq) == \A i, k \in 1..Len(seq) : seq[i] = seq[k] => i = k

\* job n is a guarded redirect of job: neither job's source nor n's source is
\* in job's history, and n carries that history extended by job's source
GuardedRedirect(job, n) ==
    /\ ~InSeq(job.source_id, RedirectHistory(job.payload))
    /\ ~InSeq(n.source_id, RedirectHistory(job.payload))
    /\ RedirectHistory(n.payload) =
          Append(RedirectHistory(job.payload), job.source_id)
    /\ NoRepeat(RedirectHistory(job.payload)) => NoRepeat(RedirectHistory(n.payload))

\* the step took job j off the queue and put at most one job in its place,
\* a guarded redirect of it
ProcessedOne(j) ==
    \/ processQueue' = RemoveAt(processQueue, j)
    \/ /\ Len(processQueue') = Len(processQueue)
       /\ SubSeq(processQueue', 1, Len(processQueue) - 1) = RemoveAt(processQueue, j)
       /\ GuardedRedirect(processQueue[j], processQueue'[Len(processQueue)])

----------------------------------------------------------------------------
(* Rule trees on their own: no tree, empty groups at the top and nested,    *)
(* and groups of one to three children, evaluated on a data map.            *)

TreeData ==
    {EmptyDict, DictPut(EmptyDict, K_n, <<"5">>), DictPut(EmptyDict, K_n, <<"x">>)}

TreeConditions ==
    {Cond(K_n, "eq", <<"5">>), Cond(K_n, "neq", <<"5">>), Cond(K_n, "gt", <<"1">>)}

TreeLogics == {"and", "or"}

EmptyTrees ==
    {Group(l, <<>>) : l \in TreeLogics}
    \cup {Group(l1, <<Group(l2, <<>>)>>) : l1 \in TreeLogics, l2 \in TreeLogics}
    \cup {Group(l1, <<c, Group(l2, <<>>)>>) :
            l1 \in TreeLogics, l2 \in TreeLogics, c \in TreeConditions}

FullTrees ==
    {Group(l, <<c1, c2>>) : l \in TreeLogics, c1 \in TreeConditions, c2 \in TreeConditions}
    \cup {Group(l1, <<c1, Group(l2, <<c2, c3>>)>>) :
            l1 \in TreeLogics, l2 \in TreeLogics, c1 \in TreeConditions,
            c2 \in TreeConditions, c3 \in TreeConditions}

InitTree ==
    /\ \E d \in TreeData :
          \/ lastJob = [kind |-> "rules", payload |-> d, filtering |-> NoFilter,
                        outcome |-> "pending"]
          \/ \E tree \in EmptyTrees \cup FullTrees :
                lastJob = [kind |-> "rules", payload |-> d, filtering |-> tree,
                           outcome |-> "pending"]
    /\ systemFields = <<>>
    /\ vendors = PlainVendors
    /\ unknownFields = <<>>
    /\ leads = <<>>
    /\ processQueue = <<>>
    /\ routeQueue = <<>>
    /\ now = 0
    /\ budget = [ingest |-> 0, ticks |-> 0, admin |-> 0, api |-> 0]
    /\ customers = <<>>
    /\ campaigns = <<>>
    /\ destinations = <<>>
    /\ router = IdleRouter
    /\ httpLog = <<>>
    /\ lastApi = NoApi
    /\ tasks = IdleTasks

SpecTree == InitTree /\ [][Evaluate]_vars

\* the value the statement gives a node: a condition has its own value, a
\* group without children is true, an "and" group is true iff all children
\* are, an "or" group iff at least one is
RECURSIVE Admits(_, _)
Admits(payload, node) ==
    IF node.kind = "cond" THEN evaluate_condition(payload, node)
    ELSE IF node.conditions = <<>> THEN TRUE
    ELSE IF node.logic = "and"
         THEN \A i \in 1..Len(node.conditions) : Admits(payload, node.conditions[i])
         ELSE \E i \in 1..Len(node.conditions) : Admits(payload, node.conditions[i])

\* C22. Empty rule tree admits everything: no filter tree, or a group without
\* children at the top or nested, evaluates to true on every data map whatever
\* the group's logic; a non-empty "and" group is true iff all its children are
\* true and a non-empty "or" group iff at least one child is.
EmptyTreeAdmits ==
    (lastJob.kind = "rules" /\ lastJob.outcome # "pending") =>
        /\ lastJob.outcome \in {"true", "false"}
        /\ lastJob.outcome = "true" <=>
              (lastJob.filtering = NoFilter \/ Admits(lastJob.payload, lastJob.filtering))

\* an "or" group whose only true child is a nested group without children
\* was evaluated to true
EmptyTreeAdmitsWitness ==
    /\ lastJob.kind = "rules"
    /\ lastJob.outcome = "true"
    /\ lastJob.filtering # NoFilter
    /\ lastJob.filtering.logic = "or"
    /\ Len(lastJob.filtering.conditions) = 2
    /\ ~evaluate_condition(lastJob.payload, lastJob.filtering.conditions[1])
    /\ lastJob.filtering.conditions[2].conditions = <<>>
    /\ lastJob.filtering.conditions[2].logic = "or"

\* ---------------------------------------------------------------------------
\* apply_mapping with auto_discover=False: the outbound mapping of
\* deliver_to_campaign and the loop of reprocess_source_leads_task
\* ---------------------------------------------------------------------------

\* source s1 declares the rule x -> y, so that a stored record carries the
\* key y, which is no system field and has no rule in the campaign's mapping
QuietVendors ==
    [PlainVendors EXCEPT !["v1"].sources[1].mapping.rules =
        <<MappingRule(F_x, F_y)>>]

\* the campaign's outbound mapping declares email -> mail only
QuietCampaigns ==
    <<[PlainCampaign(1) EXCEPT !.mapping.rules =
          <<MappingRule(K_email, <<"m", "a", "i", "l">>)>>]>>

QuietCustomers == <<Customer("c1", <<"d1">>, <<1>>)>>

QuietPayloads == { << <<F_x, <<"a">>>>, <<F_z, <<"c">>>> >> }

InitQuiet ==
    InitWith(QuietVendors, <<EmailField>>, QuietCustomers, QuietCampaigns,
             ScopeDestinations)

NextQuiet ==
    \/ \E p \in QuietPayloads : Ingest("s1", p)
    \/ \E j \in 1..Len(processQueue) : ProcessLead(j)
    \/ \E j \in 1..Len(routeQueue) : RouteLead(j)
    \/ Deliver
    \/ RemapStart("s1", F_z, K_email, "source", FALSE)
    \/ RemapSave
    \/ RemapFinish
    \/ \E j \in 1..Len(tasks.reprocessQueue) : ReprocessStart(j)
    \/ ReprocessLead

SpecQuiet == InitQuiet /\ [][NextQuiet]_vars

\* a step of deliver_to_campaign
OutboundStep == router.pc = "deliver" /\ router' # router

\* no mapping rule, no UnknownField document and no alias is created or changed
StoresKept ==
    /\ vendors' = vendors
    /\ unknownFields' = unknownFields
    /\ systemFields' = systemFields

\* the target fields the rules of a mapping declare
DeclaredTargets(mapping) ==
    {mapping.rules[i].target_field : i \in 1..Len(mapping.rules)}

\* the request a delivery step sends carries declared target fields only
OutboundDeclared ==
    Len(httpLog') > Len(httpLog) =>
        DOMAIN httpLog'[Len(httpLog')].params \subseteq
            DeclaredTargets(campaigns[httpLog'[Len(httpLog')].campaign_id].mapping)

\* the record an iteration of the reprocessing loop writes carries declared
\* target fields only
ReprocessDeclared ==
    \A i \in 1..Len(leads) :
        leads'[i].data # leads[i].data =>
            DOMAIN leads'[i].data \subseteq
                DeclaredTargets(tasks.reprocess.source.mapping)

\* C28. Discovery is off on the outbound and reprocessing paths: a step of
\* deliver_to_campaign and an iteration of reprocess_source_leads_task
\* create or change no mapping rule, no UnknownField document and no alias,
\* whatever keys the mapped payload has, and what they write carries the
\* target fields of the declared rules only.
DiscoveryOff ==
    [][/\ OutboundStep => StoresKept /\ OutboundDeclared
       /\ ReprocessStep => StoresKept /\ ReprocessDeclared]_vars

\* a record carrying the key y, for which the campaign declares no rule and
\* which is no system field, was delivered, and a record whose payload has
\* the remapped key z was reprocessed; no UnknownField document names the
\* placeholder source of the outbound mapping
DiscoveryOffWitness ==
    /\ \E k \in 1..Len(httpLog) :
          /\ F_y \in DOMAIN leads[httpLog[k].lead_id].data
          /\ F_y \notin DOMAIN httpLog[k].params
    /\ \E i \in 1..Len(leads) :
          /\ F_z \in PayloadKeys(leads[i].original_payload)
          /\ K_email \in DOMAIN leads[i].data
    /\ tasks.reprocess.pc = "idle"
    /\ tasks.reprocessQueue = <<>>


\* ---------------------------------------------------------------------------
\* map_unknown_field followed by the reprocessing jobs it sends, with the
\* request handler running to its end and the worker consuming its queue
\* ---------------------------------------------------------------------------

NextRetro ==
    \/ \E s \in {"s1", "s2"} : \E p \in UnseenPayloads : Ingest(s, p)
    \/ \E j \in 1..Len(processQueue) : ProcessLead(j)
    \/ \E scope \in {"vendor", "source"} : RemapStart("s1", F_x, K_email, scope, FALSE)
    \/ RemapSave
    \/ RemapFinish
    \/ \E j \in 1..Len(tasks.reprocessQueue) : ReprocessStart(j)
    \/ ReprocessLead

\* the handler of the API call is not abandoned, and the worker takes every
\* message of its queue and finishes its loop
FairRetro ==
    /\ WF_vars(RemapSave)
    /\ WF_vars(RemapFinish)
    /\ WF_vars(\E j \in 1..Len(tasks.reprocessQueue) : ReprocessStart(j))
    /\ WF_vars(ReprocessLead)

SpecRetro == InitUnseen /\ [][NextRetro]_vars /\ FairRetro

\* the last step of a successful call: steps 4 to 6 and the response
RemapReturns == tasks.remap.pc = "finish" /\ tasks'.remap.pc = "idle"

\* one reprocess message per affected source, as many as the response counts,
\* and each affected source has the rule field -> target
JobsEnqueued ==
    RemapReturns =>
        /\ tasks'.remap.status = "success"
        /\ tasks'.remap.affected = tasks.remap.affected
        /\ tasks'.reprocessQueue = tasks.reprocessQueue \o tasks.remap.affected
        /\ \A n \in 1..Len(tasks.remap.affected) :
              /\ Len(RulesOf(vendors, tasks.remap.affected[n], tasks.remap.field)) = 1
              /\ RulesOf(vendors, tasks.remap.affected[n],
                         tasks.remap.field)[1].target_field = tasks.remap.target

\* the last call succeeded and every reprocess message sent so far was consumed
RetroSettled ==
    /\ tasks.remap.seq > 0
    /\ tasks.remap.pc = "idle"
    /\ tasks.remap.status = "success"
    /\ tasks.reprocessQueue = <<>>
    /\ tasks.reprocess.pc = "idle"

\* the stored records of the affected sources whose original payload has the
\* remapped field
RetroRecords ==
    {i \in 1..Len(leads) :
        /\ InSeq(leads[i].source_id, tasks.remap.affected)
        /\ tasks.remap.field \in PayloadKeys(leads[i].original_payload)}

RetroMapped(i) ==
    DictGet(leads[i].data, tasks.remap.target)
        = PayloadGet(leads[i].original_payload, tasks.remap.field)

\* a rule of the record's source writes another key of the payload under the
\* target of the remap
OtherRuleTo(i) ==
    \E n \in 1..Len(SourceOf(vendors, leads[i].source_id).mapping.rules) :
        LET rule == SourceOf(vendors, leads[i].source_id).mapping.rules[n]
        IN  /\ rule.source_field # tasks.remap.field
            /\ rule.target_field = tasks.remap.target
            /\ rule.source_field \in PayloadKeys(leads[i].original_payload)

K_phone == <<"p", "h", "o", "n", "e">>

PhoneField == [tenant_id |-> TenantId, owner_id |-> OwnerId, field_key |-> K_phone,
               aliases |-> <<>>]

\* s1 checks email and phone with the operator; s2 of the same vendor does
\* not check
OperatorVendors(operator) ==
    [v \in {"v1", "v2"} |->
        IF v = "v1"
        THEN Vendor(<<Source("s1", SourceConfig(TRUE, 0, <<K_email, K_phone>>,
                                                operator), <<>>, NoFilter),
                      Source("s2", NoDedupe, <<>>, NoFilter)>>)
        ELSE Vendor(<<Source("s3", NoDedupe, <<>>, NoFilter)>>)]

OperatorPayloads ==
    { << <<K_email, <<"a">>>>, <<K_phone, <<"1">>>> >>,
      << <<K_email, <<"a">>>>, <<K_phone, <<"2">>>> >>,
      << <<K_email, <<"b">>>>, <<K_phone, <<"1">>>> >>,
      << <<K_email, <<"a">>>> >>,
      << <<K_email, EmptyStr>>, <<K_phone, EmptyStr>> >> }

\* three requests: two stored leads and a third payload
InitOperator ==
    \E operator \in {"and", "or"} :
        /\ systemFields = <<EmailField, PhoneField>>
        /\ vendors = OperatorVendors(operator)
        /\ unknownFields = <<>>
        /\ leads = <<>>
        /\ processQueue = <<>>
        /\ routeQueue = <<>>
        /\ now = 0
        /\ lastJob = NoJob
        /\ customers = <<>>
        /\ campaigns = <<>>
        /\ destinations = <<>>
        /\ router = IdleRouter
        /\ httpLog = <<>>
        /\ lastApi = NoApi
        /\ tasks = IdleTasks
        /\ budget = [ingest |-> MaxIngest + 1, ticks |-> 0, admin |-> 0, api |-> 0]

NextOperator ==
    \/ \E p \in OperatorPayloads : Ingest("s1", p)
    \/ Ingest("s2", << <<K_email, <<"a">>>>, <<K_phone, <<"1">>>> >>)
    \/ \E j \in 1..Len(processQueue) : ProcessLead(j)

SpecOperator == InitOperator /\ [][NextOperator]_vars

\* the value the last job's record has for a field
JobValue(f) == PayloadGet(lastJob.payload, f)

\* the configured fields for which the last job's record has a value
GivenFields ==
    {f \in {fields_to_check(lastJob.source)[n] :
               n \in 1..Len(fields_to_check(lastJob.source))} : Truthy(JobValue(f))}

\* the leads of the job's source stored before it
SameSourcePrior ==
    {i \in 1..Len(lastJob.prior) : lastJob.prior[i].source_id = lastJob.source.id}

AgreesOn(i, f) == DictGet(lastJob.prior[i].data, f) = JobValue(f)

IsAnd == lastJob.source.config.dupe_field_operator = "and"

\* C30 (as stated). With operator AND the record is classified a duplicate
\* only when one earlier lead of the same source agrees with it on every
\* configured field; with operator OR iff an earlier lead of the same source
\* agrees with it on some configured field that has a non-empty value.
OperatorEveryField ==
    Dedupes =>
        /\ (IsAnd /\ Truthy(lastJob.dupe_error)) =>
              \E i \in SameSourcePrior :
                  \A f \in {K_email, K_phone} : AgreesOn(i, f)
        /\ ~IsAnd =>
              (Truthy(lastJob.dupe_error) <=>
                  \E i \in SameSourcePrior : \E f \in GivenFields : AgreesOn(i, f))

\* C30 (as amended). With operator AND the record is classified a duplicate
\* iff it has a non-empty value for some configured field and one earlier
\* lead of the same source agrees with it on every configured field for which
\* it has a non-empty value; with operator OR iff an earlier lead of the same
\* source agrees with it on some such field; leads of other sources do not
\* count.
DedupeOperator ==
    Dedupes =>
        /\ IsAnd =>
              (Truthy(lastJob.dupe_error) <=>
                  /\ GivenFields # {}
                  /\ \E i \in SameSourcePrior : \A f \in GivenFields : AgreesOn(i, f))
        /\ ~IsAnd =>
              (Truthy(lastJob.dupe_error) <=>
                  \E i \in SameSourcePrior : \E f \in GivenFields : AgreesOn(i, f))

\* operator AND: two earlier leads of s1 agree with the record on one field
\* each, none on both, and the record is no duplicate
DedupeOperatorWitness ==
    /\ Dedupes /\ IsAnd
    /\ GivenFields = {K_email, K_phone}
    /\ \E i \in SameSourcePrior : AgreesOn(i, K_email) /\ ~AgreesOn(i, K_phone)
    /\ \E i \in SameSourcePrior : ~AgreesOn(i, K_email) /\ AgreesOn(i, K_phone)
    /\ ~Truthy(lastJob.dupe_error)


\* ---------------------------------------------------------------------------
\* track_unknown_field on its own: the sightings of one key, one value each
\* ---------------------------------------------------------------------------

MaxSightings == 7

\* six plain values, one holding the separator of the stored list, the empty
\* string and None
PlainSamples == {<<"a">>, <<"b">>, <<"c">>, <<"d">>, <<"e">>, <<"f">>}

SightedValues == PlainSamples \cup {<<"a", ",", " ", "b">>, EmptyStr, NoneVal}

InitSamples ==
    /\ lastJob = [kind |-> "track", value |-> NoneVal, plain |-> TRUE]
    /\ systemFields = <<>>
    /\ vendors = PlainVendors
    /\ unknownFields = <<>>
    /\ leads = <<>>
    /\ processQueue = <<>>
    /\ routeQueue = <<>>
    /\ now = 0
    /\ budget = [ingest |-> 0, ticks |-> 0, admin |-> 0, api |-> 0]
    /\ customers = <<>>
    /\ campaigns = <<>>
    /\ destinations = <<>>
    /\ router = IdleRouter
    /\ httpLog = <<>>
    /\ lastApi = NoApi
    /\ tasks = IdleTasks

\* track_unknown_field("s1", "x", value, ...) is called
Sight(value) ==
    /\ lastJob.kind = "track"
    /\ \A i \in 1..Len(unknownFields) : unknownFields[i].detected_count < MaxSightings
    /\ unknownFields' = track_unknown_field(unknownFields, "s1", F_x, value,
                                            OwnerId, TenantId, now)
    /\ lastJob' = [kind |-> "track", value |-> value,
                   plain |-> lastJob.plain /\ ~IsSubstr(SampleSep, value)]
    /\ UNCHANGED <<systemFields, vendors, leads, processQueue, routeQueue, now,
                   budget>>
    /\ UNCHANGED routeVars

NextSamplesSpec == \E value \in SightedValues : Sight(value)

SpecSamples == InitSamples /\ [][NextSamplesSpec]_vars

\* the sample values a document holds
SamplesOf(uf) ==
    IF Truthy(uf.sample_value) THEN StrSplit(uf.sample_value) ELSE <<>>

Distinct(samples) ==
    \A i, j \in 1..Len(samples) : i # j => samples[i] # samples[j]

SamplesBounded(ufs) ==
    \A i \in 1..Len(ufs) :
        /\ Len(SamplesOf(ufs[i])) <= MaxSamples
        /\ Distinct(SamplesOf(ufs[i]))

\* a sighting of a document that exists: a value it holds, or no value,
\* changes no sample; a new value is put last, and the oldest sample goes
\* when there were five
SightingStep ==
    (Len(unknownFields) = 1 /\ Len(unknownFields') = 1) =>
        LET old == SamplesOf(unknownFields[1])
            new == SamplesOf(unknownFields'[1])
            value == lastJob'.value
        IN  IF ~Truthy(value) \/ InSeq(value, old) THEN new = old
            ELSE IF Len(old) < MaxSamples THEN new = Append(old, value)
            ELSE new = Append(Tail(old), value)

OtherOwner == "o2"

\* aliases of "E" scoped to source s3 and to vendor v2, registered by the
\* owner of the payloads of s1 or by another owner of the tenant
IsolationAliases(scope) ==
    LET e == IF scope = "source" THEN AliasEntry(<<"E">>, "source", NoneId, "s3")
             ELSE AliasEntry(<<"E">>, "vendor", "v2", NoneId)
    IN  {<<e>>, <<[e EXCEPT !.owner_id = OtherOwner]>>}

InitIsolation == InitWith(PlainVendors, <<>>, <<>>, <<>>, <<>>)

NextIsolation ==
    \/ \E a \in IsolationAliases("source") : CreateSystemField(F_y, a)
    \/ \E a \in IsolationAliases("vendor") : CreateSystemField(F_z, a)
    \/ \E s \in {"s1", "s3"} : Ingest(s, << <<<<"E">>, <<"q">>>> >>)
    \/ \E j \in 1..Len(processQueue) : ProcessLead(j)

SpecIsolation == InitIsolation /\ [][NextIsolation]_vars

\* the alias entry is scoped to the source or to the vendor of the last job
ScopedToJob(e) ==
    \/ e.scope = "source" /\ e.source_id = lastJob.source.id
    \/ e.scope = "vendor" /\ e.vendor_id = lastJob.vendor_id

\* the fields holding an alias of the key that is scoped to another source or
\* vendor than the job's, registered by one of the owners
ForeignFields(key, owners) ==
    {lastJob.fields[j].field_key : j \in
       {k \in 1..Len(lastJob.fields) :
          \E a \in 1..Len(lastJob.fields[k].aliases) :
             LET e == lastJob.fields[k].aliases[a]
             IN  /\ e.alias_normalized = normalize_alias(key)
                 /\ e.scope \in {"source", "vendor"}
                 /\ ~ScopedToJob(e)
                 /\ e.owner_id \in owners}}

\* the fields holding an alias of the key that is global or scoped to the job
OwnFields(key) ==
    {lastJob.fields[j].field_key : j \in
       {k \in 1..Len(lastJob.fields) :
          \E a \in 1..Len(lastJob.fields[k].aliases) :
             LET e == lastJob.fields[k].aliases[a]
             IN  /\ e.alias_normalized = normalize_alias(key)
                 /\ (e.scope = "global" \/ ScopedToJob(e))}}

\* the key was treated as a miss: null-target rule, UnknownField document,
\* and no value in the lead's data
TreatedAsMiss(key) ==
    /\ StoredTarget(key) = NoneVal
    /\ EntriesOf(unknownFields, key) # <<>>
    /\ ~lastJob.raised => DOMAIN leads[lastJob.lead_id].data = {}

\* the job had only aliases scoped elsewhere to go by
OnlyForeign(key) ==
    /\ Processed
    /\ lastJob.payload[1][1] = key
    /\ Undecided(key)
    /\ OwnFields(key) = {}
    /\ ForeignFields(key, {OwnerId, OtherOwner}) # {}

\* C32 (as stated). Alias scope isolation: a payload for which only aliases
\* scoped to another source or another vendor exist is treated as a miss,
\* also when the alias entry and the payload have the same owner.
ForeignAliasMisses == OnlyForeign(<<"E">>) => TreatedAsMiss(<<"E">>)

\* C32 (as amended). Such a payload is treated as a miss when every such
\* alias entry has another owner than the payload; when one has the
\* payload's owner, the value is written under a field holding such an entry.
AliasScopeIsolation ==
    OnlyForeign(<<"E">>) =>
        IF ForeignFields(<<"E">>, {lastJob.owner_id}) = {}
        THEN TreatedAsMiss(<<"E">>)
        ELSE WrittenUnder(1, ForeignFields(<<"E">>, {lastJob.owner_id}))

\* a payload of s1 met two aliases scoped elsewhere, one of them registered
\* by its own owner, and was written under that one's field; the other
\* owner's entry stands first in the catalog
AliasScopeIsolationWitness ==
    /\ OnlyForeign(<<"E">>)
    /\ lastJob.source.id = "s1"
    /\ ~lastJob.raised
    /\ Len(lastJob.fields) = 2
    /\ lastJob.fields[1].aliases[1].owner_id = OtherOwner
    /\ lastJob.fields[2].aliases[1].owner_id = lastJob.owner_id
    /\ DictGet(leads[lastJob.lead_id].data, lastJob.fields[2].field_key) = <<"q">>

\* a payload of s1 met aliases of another owner only, scoped elsewhere
AliasScopeMissWitness ==
    /\ OnlyForeign(<<"E">>)
    /\ ForeignFields(<<"E">>, {lastJob.owner_id}) = {}
    /\ TreatedAsMiss(<<"E">>)


\* ---------------------------------------------------------------------------
\* Two workers processing payloads of a source that checks duplicates
\* ---------------------------------------------------------------------------

TwinPayloads == { << <<K_email, <<"a">>>> >>, << <<K_email, <<"c">>>> >> }

InitTwin == InitWith(DedupeVendors(0), <<EmailField>>, <<>>, <<>>, <<>>)

NextTwin ==
    \/ \E p \in TwinPayloads : Ingest("s1", p)
    \/ \E w \in DOMAIN tasks.process :
          \/ \E j \in 1..Len(processQueue) : WorkerStart(w, j)
          \/ WorkerKey(w)
          \/ WorkerPersist(w)
          \/ WorkerCheck(w)
          \/ WorkerInsert(w)

SpecTwin == InitTwin /\ [][NextTwin]_vars

\* C33. Dedupe under concurrent ingestion: of the stored leads of a source
\* that checks duplicates which carry the same non-empty dedupe value, at
\* most one has the status processed, whatever the interleaving of the two
\* workers' duplicate checks and inserts.
OneProcessedPerValue ==
    \A i, j \in 1..Len(leads) :
        (/\ i # j
         /\ leads[i].source_id = "s1" /\ leads[j].source_id = "s1"
         /\ Truthy(DictGet(leads[i].data, K_email))
         /\ DictGet(leads[i].data, K_email) = DictGet(leads[j].data, K_email))
        => ~(leads[i].status = "processed" /\ leads[j].status = "processed")

\* both workers hold the verdict "no duplicate" for the same email
BothChecked ==
    /\ tasks.process["w1"].pc = "insert" /\ tasks.process["w2"].pc = "insert"
    /\ tasks.process["w1"].result = tasks.process["w2"].result
    /\ tasks.process["w1"].dupe_error = NoneVal
    /\ tasks.process["w2"].dupe_error = NoneVal

\* a worker never inserts a lead whose email was stored on the source when it
\* checked
CheckedAgainstStored ==
    \A i \in 1..Len(leads) : \A w \in DOMAIN tasks.process :
        (/\ tasks.process[w].pc = "insert"
         /\ tasks.process[w].dupe_error = NoneVal
         /\ leads[i].source_id = tasks.process[w].job.source_id
         /\ Truthy(DictGet(leads[i].data, K_email))
         /\ DictGet(leads[i].data, K_email)
               = DictGet(tasks.process[w].result, K_email))
        => i > Len(tasks.process[w].checked)


\* ---------------------------------------------------------------------------
\* Two workers processing payloads of one vendor that bring different new keys
\* ---------------------------------------------------------------------------

LostPayloads == { << <<F_x, <<"a">>>> >>, << <<F_y, <<"b">>>> >> }

InitLost == InitWith(PlainVendors, <<EmailField>>, <<>>, <<>>, <<>>)

NextLost ==
    \/ \E s \in {"s1", "s2"} : \E p \in LostPayloads : Ingest(s, p)
    \/ \E w \in DOMAIN tasks.process :
          \/ \E j \in 1..Len(processQueue) : WorkerStart(w, j)
          \/ WorkerKey(w)
          \/ WorkerPersist(w)
          \/ WorkerTrack(w)
          \/ WorkerTrackSave(w)
          \/ WorkerFinish(w)

SpecLost == InitLost /\ [][NextLost]_vars

\* no job is waiting or running
JobsFinished ==
    /\ processQueue = <<>>
    /\ \A w \in DOMAIN tasks.process : tasks.process[w].pc = "idle"

\* C34. No mapping rule is lost to a concurrent writer: once the jobs have
\* finished, the stored source of every stored lead has a mapping rule for
\* every key of the lead's payload, whichever worker persisted it and in
\* whatever order the workers saved.
NoRuleLost ==
    JobsFinished =>
        \A i \in 1..Len(leads) :
            \A key \in PayloadKeys(leads[i].original_payload) :
                RulesOf(vendors, leads[i].source_id, key) # <<>>

\* a worker is about to save a vendor document that lacks a rule the stored
\* document has
StaleSave ==
    \E w \in DOMAIN tasks.process :
        /\ tasks.process[w].pc = "persist"
        /\ \E n \in 1..Len(vendors[tasks.process[w].doc_id].sources) :
              LET stored == vendors[tasks.process[w].doc_id].sources[n].mapping.rules
                  held == tasks.process[w].doc.sources[n].mapping.rules
              IN  \E r \in 1..Len(stored) :
                     \A h \in 1..Len(held) :
                        held[h].source_field # stored[r].source_field

\* a rule leaves the stored configuration only in a save of a stale document
RuleLostOnlyByStaleSave ==
    [][(\E s_id \in {"s1", "s2"} : \E key \in {F_x, F_y} :
           /\ RulesOf(vendors, s_id, key) # <<>>
           /\ RulesOf(vendors', s_id, key) = <<>>) => StaleSave]_vars


\* ---------------------------------------------------------------------------
\* Candidate generation when the check of one campaign raises
\* ---------------------------------------------------------------------------

\* three campaigns of one customer on one endpoint; the one at position pos
\* has a cap for Thursdays, whose check raises on a Thursday
ErrCampaigns(pos) ==
    [k \in 1..3 |->
        IF k = pos
        THEN Campaign(k, <<"A">>, "d1",
                      CampaignConfig(0, [NoCaps EXCEPT !["thursday"] = 5], AllDay),
                      NoFilter, <<>>)
        ELSE PlainCampaign(k)]

ErrCustomers == <<Customer("c1", <<"d1">>, <<1, 2, 3>>)>>

InitErr ==
    \E pos \in 1..3 :
        InitWith(PlainVendors, <<EmailField>>, ErrCustomers, ErrCampaigns(pos),
                 ScopeDestinations)

NextErr ==
    \/ Ingest("s1", << <<K_email, <<"a">>>> >>)
    \/ \E j \in 1..Len(processQueue) : ProcessLead(j)
    \/ \E j \in 1..Len(routeQueue) : RouteLead(j)
    \/ Deliver

SpecErr == InitErr /\ [][NextErr]_vars

\* the check of campaign k raises for the record of the run
CheckRaises(k) == Gate(router.lead, campaigns[k], router.at) = "raise"

\* campaign k, taken by itself, is eligible for the record of the run
EligibleAlone(k) == Gate(router.lead, campaigns[k], router.at) = "ok"

\* the run has made its delivery step for campaign k
Attempted(k) ==
    \E n \in 1..Len(router.log) : router.log[n].campaign_id = k

\* C35. Eligibility errors are isolated per target: in a run in which the
\* check of a campaign raises, every other campaign that is eligible for the
\* record, examined before or after it, is a target of the run and has had
\* its delivery step when the run has ended.
EligibilityErrorsIsolated ==
    (RunOnRecord /\ \E e \in 1..Len(campaigns) : CheckRaises(e)) =>
        \A k \in 1..Len(campaigns) :
            EligibleAlone(k) =>
                /\ k \in TargetIds
                /\ RunDone => Attempted(k)

\* what the run does: the campaigns examined before the first one whose check
\* raises are targets when eligible, and none examined after it is
ErrorEndsGeneration ==
    RunOnRecord =>
        \A e \in 1..Len(campaigns) :
            (CheckRaises(e) /\ \A b \in 1..(e - 1) : ~CheckRaises(b)) =>
                /\ \A k \in 1..(e - 1) : EligibleAlone(k) => k \in TargetIds
                /\ \A k \in e..Len(campaigns) : k \notin TargetIds

\* the check of the second campaign raised: the first is a target, the third
\* is eligible and is none
ErrorEndsGenerationWitness ==
    /\ RunOnRecord /\ RunDone
    /\ CheckRaises(2)
    /\ EligibleAlone(3)
    /\ TargetIds = {1}
    /\ Attempted(1)


\* ---------------------------------------------------------------------------
\* A payload that carries the entries a redirect adds (lines 37 to 40),
\* processed on the source it names as target
\* ---------------------------------------------------------------------------

\* new_payload of a duplicate diverted from s2, of one diverted from s3 to
\* s2 and from there, and a payload without the entries
CarriedPayloads ==
    { << <<K_email, <<"a">>>>, <<K_redirect_history, <<"s2">>>>,
         <<K_diverted_from, <<"s2">>>> >>,
      << <<K_email, <<"a">>>>, <<K_redirect_history, <<"s3", "s2">>>>,
         <<K_diverted_from, <<"s2">>>> >>,
      << <<K_email, <<"b">>>> >> }

BookkeepingKeys == {K_redirect_history, K_diverted_from}

InitCarry == InitWith(PlainVendors, <<EmailField>>, <<>>, <<>>, <<>>)

NextCarry ==
    \/ \E s \in {"s1", "s2"} : \E p \in CarriedPayloads : Ingest(s, p)
    \/ \E j \in 1..Len(processQueue) : ProcessLead(j)

SpecCarry == InitCarry /\ [][NextCarry]_vars

\* the last job stored a lead from a payload carrying the entries
CarriedStored ==
    /\ Processed /\ ~lastJob.raised
    /\ BookkeepingKeys \subseteq PayloadKeys(lastJob.payload)

BookkeepingDiscovered ==
    CarriedStored =>
        \A key \in BookkeepingKeys :
            /\ NullRuled(vendors, lastJob.source.id, key)
            /\ EntriesOf(unknownFields, key) # <<>>
            /\ key \notin DOMAIN leads[lastJob.lead_id].data

----------------------------------------------------------------------------
(* Record status: source s1 rejects email b by its filter and checks email  *)
(* for duplicates; an operator maps the vendor field x to a new system      *)
(* field named _rejected; leads are routed, by the queue or at any id, and  *)
(* the leads of s1 are reprocessed after the mapping.                       *)

StatusPayloads ==
    { << <<K_email, <<"b">>>> >>,
      << <<K_email, <<"a">>>>, <<F_x, <<"1">>>> >> }

InitStatus ==
    InitWith(DedupeVendors(0), <<EmailField>>, QuietCustomers, QuietCampaigns,
             ScopeDestinations)

NextStatus ==
    \/ \E p \in StatusPayloads : Ingest("s1", p)
    \/ \E j \in 1..Len(processQueue) : ProcessLead(j)
    \/ \E j \in 1..Len(routeQueue) : RouteLead(j)
    \/ \E i \in 1..Len(leads) : RouteAny(i)
    \/ Deliver
    \/ RemapStart("s1", F_x, K_rejected, "source", TRUE)
    \/ RemapSave
    \/ RemapFinish
    \/ \E j \in 1..Len(tasks.reprocessQueue) : ReprocessStart(j)
    \/ ReprocessLead

SpecStatus == InitStatus /\ [][NextStatus]_vars

ReasonSet(l) == l.rejection_reason # NoneVal

StatusKnown == \A i \in 1..Len(leads) : leads[i].status \in {"processed", "rejected"}

\* the record's payload supplies a truthy value that mapping files under
\* _rejected: under that key itself when it is a system field, or under a
\* vendor field a rule of the record's source sends there
FlagSupplied(l) ==
    \E n \in 1..Len(l.original_payload) :
        LET key == l.original_payload[n][1]
        IN  /\ Truthy(l.original_payload[n][2])
            /\ \/ key = K_rejected /\ HasSystemField(systemFields, K_rejected, l.tenant_id)
               \/ \E v \in DOMAIN vendors : \E k \in 1..Len(vendors[v].sources) :
                     /\ vendors[v].sources[k].id = l.source_id
                     /\ \E r \in 1..Len(vendors[v].sources[k].mapping.rules) :
                           /\ vendors[v].sources[k].mapping.rules[r].source_field = key
                           /\ vendors[v].sources[k].mapping.rules[r].target_field = K_rejected

\* no step changes the status or the reason of a stored record, or removes one
StatusAndReasonKept ==
    \A i \in 1..Len(leads) :
        /\ i <= Len(leads')
        /\ leads'[i].status = leads[i].status
        /\ leads'[i].rejection_reason = leads[i].rejection_reason

\* C38 as stated. Every persisted record has status processed or rejected,
\* it is rejected exactly when its rejection_reason is set, and no operation
\* moves a rejected record to processed.
RecordStatusExact ==
    /\ [](StatusKnown /\ \A i \in 1..Len(leads) :
                           (leads[i].status = "rejected") <=> ReasonSet(leads[i]))
    /\ [][StatusAndReasonKept]_vars

\* C38. Every persisted record has status processed or rejected; a record
\* whose rejection_reason is set is rejected, and a rejected record has its
\* reason set unless its payload supplied a truthy value for a field mapped
\* to _rejected; no operation (routing, reprocessing, a duplicate of it)
\* changes the status or the reason of a stored record.
RecordStatus ==
    /\ [](StatusKnown /\ \A i \in 1..Len(leads) :
                           /\ ReasonSet(leads[i]) => leads[i].status = "rejected"
                           /\ leads[i].status = "rejected"
                                 => ReasonSet(leads[i]) \/ FlagSupplied(leads[i]))
    /\ [][StatusAndReasonKept]_vars

\* a record rejected by the filter, with its reason, that reprocessing has
\* rewritten (its data no longer holds the flag) and that routing was asked
\* to route, beside a record rejected with no reason
RecordStatusWitness ==
    \E i, k \in 1..Len(leads) :
        /\ leads[i].status = "rejected" /\ ReasonSet(leads[i])
        /\ K_rejected \notin DOMAIN leads[i].data
        /\ router.run > 0 /\ router.lead_id = i
        /\ leads[k].status = "rejected" /\ ~ReasonSet(leads[k])

====
